---- MODULE Spec2Model ----
(***************************************************************************)
(* A model of the cluster core of insulator2 (src-tauri):                  *)
(*   - Cluster::get_consumer and its consumer map   (lib/cluster.rs)       *)
(*   - the record store AppStore                    (lib/record_store)     *)
(*   - the Avro payload parser                      (lib/parser)           *)
(*   - the consumer group admin KafkaAdmin          (lib/admin)            *)
(*   - the registry of clusters AppState            (api/state.rs)         *)
(*   - the schema registry's HTTP client            (lib/schema_registry)  *)
(* The specifications share the variables:                                 *)
(*   SpecCluster, SpecClusterCancel   tasks calling get_consumer           *)
(*   SpecStore, SpecPaging, SpecQuery calls on one AppStore                *)
(*   SpecParseQuery                   parse_query on query templates       *)
(*   SpecParser                       parse_payload and get_schema_id      *)
(*   SpecAdmin                        admin calls against a moving broker  *)
(*   SpecAppState                     tasks calling get_cluster_by_id      *)
(*   SpecHttp                         get and delete against a server      *)
(*   SpecWorkers, SpecWorkersFair     threads contending for the AppStore  *)
(***************************************************************************)
EXTENDS Integers, Sequences, FiniteSets, TLC

VARIABLES
    consumers,      \* Cluster.consumers: HashMap<TopicName, Arc<KafkaConsumer>>, topic -> instance id
    mapLock,        \* holder of the futures::lock::Mutex around the map: <<>> (free) or <<task>>
    pc,             \* position of each task inside get_consumer
    arg,            \* topic_name argument of each task's call: <<>> before the call, <<topic>> after
    handles,        \* the Arc<KafkaConsumer> each returned call got: task -> instance id
    constructed,    \* history: every KafkaConsumer::new performed, as [id, topic]
    tables,         \* the sqlite connection's content: table name -> rows in rowid order
    tableCreates,   \* history: number of CREATE TABLE statements that succeeded, per table name
    inserted,       \* history: the records of the insert_record calls that succeeded since the
                    \* table's creation or last clear, per table name
    reply,          \* what the last store call returned to its caller
    committed,      \* broker: the offset committed by the consumer group, per (topic, partition)
    watermark,      \* broker: the high watermark of each (topic, partition)
    members,        \* broker: the members of the consumer group
    probe,          \* the admin call in progress: its consumer, what it has read, its result
    clusters,       \* AppState.clusters: HashMap<ClusterId, Cluster>, cluster id -> Cluster
    clustersLock,   \* holder of the futures::lock::Mutex around AppState.clusters
    caller,         \* each task's call of get_cluster_by_id: position, argument, what it got
    built,          \* history: the cluster id of every Cluster::new performed, in order
    consumersOf,    \* the consumer map behind each Arc<Mutex<HashMap<TopicName, Arc<C>>>>
    conn,           \* AppStore.conn's FairMutex: the thread holding it and the threads parked on it
    worker          \* each thread's record store operation: position, operation, result

clusterVars == <<consumers, mapLock, pc, arg, handles, constructed>>
storeVars == <<tables, tableCreates, inserted, reply>>
adminVars == <<committed, watermark, members, probe>>
appVars == <<clusters, clustersLock, caller, built, consumersOf>>
lockVars == <<conn, worker>>
vars ==
    <<consumers, mapLock, pc, arg, handles, constructed, tables, tableCreates, inserted, reply,
      committed, watermark, members, probe, clusters, clustersLock, caller, built, consumersOf,
      conn, worker>>

-----------------------------------------------------------------------------
(* Bounds and input sets *)

NumTasks == 3
Tasks == 1..NumTasks
Topics == {"t1", "t2"}
ClusterId == "c"

-----------------------------------------------------------------------------
(* Record store: AppStore *)

\* AppStore::get_table_name: format!("'[{}].[{}]'", cluster_id, topic_name)
GetTableName(cluster_id, topic_name) == "'[" \o cluster_id \o "].[" \o topic_name \o "]'"

TableNames == {GetTableName(ClusterId, t) : t \in Topics}

\* AppStore::new: an empty in-memory database
EmptyDb == [n \in {} |-> <<>>]

\* "CREATE TABLE <name> (...)": sqlite fails when the table exists
SqlCreateTable(db, name) ==
    IF name \in DOMAIN db
    THEN [ok |-> FALSE, db |-> db]
    ELSE [ok |-> TRUE, db |-> (name :> <<>>) @@ db]

\* AppStore::create_topic_table: execute(CREATE TABLE ..).unwrap_or_else(panic); Ok(())
CreateTopicTable(db, cluster_id, topic_name) ==
    LET r == SqlCreateTable(db, GetTableName(cluster_id, topic_name))
    IN  IF r.ok THEN [result |-> "Ok", db |-> r.db]
                ELSE [result |-> "Panic", db |-> db]


\* ParsedKafkaRecord { topic, partition, offset, timestamp: Option, key: Option, payload: Option }
\* an Option is <<>> (None) or <<v>> (Some(v)); the same shape is a nullable SQL value
None == <<>>
Some(v) == <<v>>

MaxRows == 3

Partitions == {2}
\* the (offset, timestamp) pairs of the records: a missing timestamp, two records with the
\* same timestamp, and a later one
OffsetsAndTimestamps == {<<0, None>>, <<0, Some(1)>>, <<1, Some(1)>>, <<1, Some(2)>>}

\* the key is absent on the records of offset 0 and present on the others
KeyOf(offset) == IF offset = 0 THEN None ELSE Some("key")

\* the records a consumer of `topic` hands to the store: their topic is the table's topic
RecordsOf(topic) ==
    { [topic |-> topic, partition |-> p, offset |-> ot[1], timestamp |-> ot[2],
       key |-> KeyOf(ot[1]), payload |-> Some("example payload")] :
      p \in Partitions, ot \in OffsetsAndTimestamps }

\* named_params! of insert_record: the five columns of a row; the topic is not stored
RowOf(record) ==
    [partition |-> Some(record.partition), offset |-> Some(record.offset),
     timestamp |-> record.timestamp, key |-> record.key, payload |-> record.payload]

\* "INSERT OR REPLACE" under a key of (partition, offset): a row of the same partition and
\* offset is overwritten
SqlInsertOrReplace(db, name, row) ==
    IF name \notin DOMAIN db THEN [ok |-> FALSE, db |-> db]
    ELSE LET Same(i) == /\ db[name][i].partition = row.partition
                        /\ db[name][i].offset = row.offset
         IN  IF \E i \in 1..Len(db[name]) : Same(i)
             THEN [ok |-> TRUE,
                   db |-> [db EXCEPT ![name] =
                              [i \in 1..Len(@) |-> IF Same(i) THEN row ELSE @[i]]]]
             ELSE [ok |-> TRUE, db |-> [db EXCEPT ![name] = Append(@, row)]]
\* "INSERT INTO <name> (...) VALUES (...)": sqlite fails when the table is missing
SqlInsert(db, name, row) ==
    IF name \in DOMAIN db
    THEN [ok |-> TRUE, db |-> [db EXCEPT ![name] = Append(@, row)]]
    ELSE [ok |-> FALSE, db |-> db]

\* AppStore::insert_record: execute(INSERT ..)?; Ok(())
InsertRecord(db, cluster_id, topic_name, record) ==
    LET r == SqlInsert(db, GetTableName(cluster_id, topic_name), RowOf(record))
    IN  IF r.ok THEN [result |-> "Ok", db |-> r.db]
                ELSE [result |-> "SqlError", db |-> db]

\* "DROP TABLE <name>": the table goes with its rows
SqlDropTable(db, name) ==
    IF name \in DOMAIN db
    THEN [ok |-> TRUE, db |-> [n \in DOMAIN db \ {name} |-> db[n]], changes |-> Len(db[name])]
    ELSE [ok |-> FALSE, db |-> db, changes |-> 0]
\* "DELETE FROM <name>": every row goes, the table stays; fails when the table is missing;
\* changes is the number of rows deleted, which execute returns
SqlDeleteAll(db, name) ==
    IF name \in DOMAIN db
    THEN [ok |-> TRUE, db |-> [db EXCEPT ![name] = <<>>], changes |-> Len(db[name])]
    ELSE [ok |-> FALSE, db |-> db, changes |-> 0]

\* AppStore::clear: execute(DELETE FROM ..).unwrap_or_else(panic); Ok(())
Clear(db, cluster_id, topic_name) ==
    LET r == SqlDeleteAll(db, GetTableName(cluster_id, topic_name))
    IN  IF r.ok THEN [result |-> "Ok", db |-> r.db, changes |-> r.changes]
                ELSE [result |-> "Panic", db |-> db, changes |-> 0]

\* Query { cluster_id, topic_name, offset, limit, query_template }: a template, and an SQL
\* statement, is a sequence of pieces of text (keywords, names, numbers, placeholders)
\* the template of get_records sorting in ascending order
GetRecordsTemplateAsc ==
    <<"SELECT", "partition, offset, timestamp, key, payload", "FROM", "{:topic}",
      "ORDER BY", "timestamp", "LIMIT", "{:limit}", "OFFSET", "{:offset}">>
\* the template of get_size applying the query's limit (which get_size sets to 0)
GetSizeTemplateWithLimit == <<"SELECT", "offset", "FROM", "{:topic}", "LIMIT", "{:limit}">>

GetRecordsTemplate ==
    <<"SELECT", "partition, offset, timestamp, key, payload", "FROM", "{:topic}",
      "ORDER BY", "timestamp", "desc", "LIMIT", "{:limit}", "OFFSET", "{:offset}">>
GetSizeTemplate == <<"SELECT", "offset", "FROM", "{:topic}">>

\* str::replace: every non-overlapping occurrence of pat, left to right, becomes rep
RECURSIVE Replace(_, _, _)
Replace(s, pat, rep) ==
    IF Len(s) < Len(pat) THEN s
    ELSE IF SubSeq(s, 1, Len(pat)) = pat
         THEN rep \o Replace(SubSeq(s, Len(pat) + 1, Len(s)), pat, rep)
         ELSE <<Head(s)>> \o Replace(Tail(s), pat, rep)

\* str::trim: leading and trailing white space goes
WhiteSpace == {" ", "\t", "\n", "\r"}
RECURSIVE TrimStart(_)
TrimStart(s) == IF s # <<>> /\ Head(s) \in WhiteSpace THEN TrimStart(Tail(s)) ELSE s
RECURSIVE TrimEnd(_)
TrimEnd(s) ==
    IF s # <<>> /\ s[Len(s)] \in WhiteSpace THEN TrimEnd(SubSeq(s, 1, Len(s) - 1)) ELSE s
Trim(s) == TrimEnd(TrimStart(s))

\* the three replace calls of parse_query, in their order
Substituted(template, placeholder, topic, limit, offset) ==
    Replace(Replace(Replace(template, placeholder.topic, topic), placeholder.limit, limit),
            placeholder.offset, offset)

\* str::trim_end_matches(';'): every ';' at the end goes
StripSemicolons(q, semicolon) ==
    LET Strip[n \in 0..Len(q)] ==
            IF n > 0 /\ q[n] = semicolon THEN Strip[n - 1] ELSE SubSeq(q, 1, n)
    IN  Strip[Len(q)]
\* the end of parse_query on the trimmed text: if it ends with ';' its last character goes
StripSemicolon(q, semicolon) ==
    IF q # <<>> /\ q[Len(q)] = semicolon THEN SubSeq(q, 1, Len(q) - 1) ELSE q

\* AppStore::parse_query on a template given as its sequence of words, a placeholder
\* being one word
ParseQuery(query) ==
    StripSemicolon(
        Trim(Substituted(query.query_template,
                         [topic |-> <<"{:topic}">>, limit |-> <<"{:limit}">>,
                          offset |-> <<"{:offset}">>],
                         <<GetTableName(query.cluster_id, query.topic_name)>>,
                         <<ToString(query.limit)>>, <<ToString(query.offset)>>)),
        ";")

\* i64::to_string: the decimal digits, after a '-' when negative
Digit(d) == <<"0", "1", "2", "3", "4", "5", "6", "7", "8", "9">>[d + 1]
RECURSIVE Digits(_)
Digits(n) == IF n < 10 THEN <<Digit(n)>> ELSE Digits(n \div 10) \o <<Digit(n % 10)>>
ToDecimal(n) == IF n < 0 THEN <<"-">> \o Digits(-n) ELSE Digits(n)

\* get_table_name on sequences of characters
GetTableNameText(cluster_id, topic_name) ==
    <<"'", "[">> \o cluster_id \o <<"]", ".", "[">> \o topic_name \o <<"]", "'">>

TopicPlaceholder == <<"{", ":", "t", "o", "p", "i", "c", "}">>
LimitPlaceholder == <<"{", ":", "l", "i", "m", "i", "t", "}">>
OffsetPlaceholder == <<"{", ":", "o", "f", "f", "s", "e", "t", "}">>

\* AppStore::parse_query on a template given as its sequence of characters
ParseQueryText(query) ==
    StripSemicolon(
        Trim(Substituted(query.query_template,
                         [topic |-> TopicPlaceholder, limit |-> LimitPlaceholder,
                          offset |-> OffsetPlaceholder],
                         GetTableNameText(query.cluster_id, query.topic_name),
                         ToDecimal(query.limit), ToDecimal(query.offset))),
        ";")

\* the integers a statement of the model can spell
SqlInts == (-1 .. 3) \cup {1000}
IsInt(s) == \E n \in SqlInts : ToString(n) = s
ParseInt(s) == CHOOSE n \in SqlInts : ToString(n) = s

\* comparison of two nullable numbers in ORDER BY: NULL sorts before every number
SqlLeq(a, b) == a = None \/ (b # None /\ a[1] <= b[1])

Column(row, col) ==
    CASE col = "partition" -> row.partition
      [] col = "offset" -> row.offset
      [] col = "timestamp" -> row.timestamp

NumericColumns == {"partition", "offset", "timestamp"}
AllColumns == {"*", "partition, offset, timestamp, key, payload"}

\* s without its i-th element
Without(s, i) == SubSeq(s, 1, i - 1) \o SubSeq(s, i + 1, Len(s))

\* the orders sqlite may produce for ORDER BY col [desc]: rows with equal keys in any order
RECURSIVE Sorted(_, _, _)
Sorted(rows, col, desc) ==
    IF rows = <<>> THEN {<<>>}
    ELSE LET n == Len(rows)
             First(i) == \A j \in 1..n :
                 IF desc THEN SqlLeq(Column(rows[j], col), Column(rows[i], col))
                         ELSE SqlLeq(Column(rows[i], col), Column(rows[j], col))
         IN  UNION { {<<rows[i]>> \o rest : rest \in Sorted(Without(rows, i), col, desc)} :
                     i \in {i \in 1..n : First(i)} }

\* LIMIT n OFFSET m: a negative limit is no limit, a negative offset is 0
Page(rows, limit, offset) ==
    LET off == IF offset < 0 THEN 0 ELSE offset
        lim == IF limit < 0 THEN Len(rows) ELSE limit
        last == IF off + lim < Len(rows) THEN off + lim ELSE Len(rows)
    IN  SubSeq(rows, off + 1, last)

SqlError == [ok |-> FALSE]

\* sqlite running
\*   SELECT cols FROM tbl [WHERE col = n] [ORDER BY col [asc|desc]] [LIMIT n [OFFSET m]] [;]
\* the set of results it may give: an error, or the selected rows in one of the orders
SqlSelect(db, sql) ==
    IF Len(sql) < 4 \/ sql[1] # "SELECT" \/ sql[3] # "FROM" \/ sql[4] \notin DOMAIN db
       \/ sql[2] \notin AllColumns \cup NumericColumns
    THEN {SqlError}
    ELSE
    LET r0 == SubSeq(sql, 5, Len(sql))
        hasWhere == r0 # <<>> /\ r0[1] = "WHERE"
        whereOk == Len(r0) >= 4 /\ r0[2] \in NumericColumns /\ r0[3] = "=" /\ IsInt(r0[4])
        r1 == IF hasWhere /\ whereOk THEN SubSeq(r0, 5, Len(r0)) ELSE r0
        hasOrder == r1 # <<>> /\ r1[1] = "ORDER BY"
        orderOk == Len(r1) >= 2 /\ r1[2] \in NumericColumns
        hasDir == hasOrder /\ orderOk /\ Len(r1) >= 3 /\ r1[3] \in {"asc", "desc"}
        desc == hasDir /\ r1[3] = "desc"
        r2 == IF hasOrder /\ orderOk
              THEN SubSeq(r1, IF hasDir THEN 4 ELSE 3, Len(r1)) ELSE r1
        hasLimit == r2 # <<>> /\ r2[1] = "LIMIT"
        limitOk == Len(r2) >= 2 /\ IsInt(r2[2])
        r3 == IF hasLimit /\ limitOk THEN SubSeq(r2, 3, Len(r2)) ELSE r2
        hasOffset == hasLimit /\ r3 # <<>> /\ r3[1] = "OFFSET"
        offsetOk == Len(r3) >= 2 /\ IsInt(r3[2])
        r4 == IF hasOffset /\ offsetOk THEN SubSeq(r3, 3, Len(r3)) ELSE r3
        wellFormed == /\ hasWhere => whereOk
                      /\ hasOrder => orderOk
                      /\ hasLimit => limitOk
                      /\ hasOffset => offsetOk
                      /\ r4 \in {<<>>, <<";">>}
        all == db[sql[4]]
        Keep(row) == Column(row, r0[2]) = Some(ParseInt(r0[4]))
        kept == IF hasWhere THEN SelectSeq(all, Keep) ELSE all
        orders == IF hasOrder THEN Sorted(kept, r1[2], desc) ELSE {kept}
        limit == IF hasLimit THEN ParseInt(r2[2]) ELSE -1
        offset == IF hasOffset THEN ParseInt(r3[2]) ELSE 0
    IN  IF ~wellFormed THEN {SqlError}
        ELSE {[ok |-> TRUE, columns |-> sql[2], rows |-> Page(o, limit, offset)] : o \in orders}

\* the closure of query_map: columns 0..4 of a row become a ParsedKafkaRecord whose topic
\* is the query's topic_name
RecordOf(row, topic_name) ==
    [topic |-> topic_name, partition |-> row.partition[1], offset |-> row.offset[1],
     timestamp |-> row.timestamp, key |-> row.key, payload |-> row.payload]

\* AppStore::query_records: the results the call may return
QueryRecords(db, query) ==
    { IF out.ok /\ out.columns \in AllColumns
      THEN [result |-> "Ok",
            records |-> [i \in 1..Len(out.rows) |-> RecordOf(out.rows[i], query.topic_name)]]
      ELSE [result |-> "SqlError"] :
      out \in SqlSelect(db, ParseQuery(query)) }

\* AppStore::get_records
GetRecords(db, cluster_id, topic_name, offset, limit) ==
    QueryRecords(db, [cluster_id |-> cluster_id, topic_name |-> topic_name, offset |-> offset,
                      limit |-> limit, query_template |-> GetRecordsTemplate])

\* sqlite running SELECT count(*) FROM ( <inner> ): a ';' inside the parentheses is an error
SqlCountSubquery(db, inner) ==
    { IF out.ok /\ \A i \in 1..Len(inner) : inner[i] # ";"
      THEN [ok |-> TRUE, count |-> Len(out.rows)]
      ELSE SqlError :
      out \in SqlSelect(db, inner) }

\* a count of the rows the query selects before its LIMIT and OFFSET
GetSizeWithQueryUnpaged(db, query) ==
    { IF out.ok THEN [result |-> "Ok", size |-> out.count] ELSE [result |-> "SqlError"] :
      out \in SqlCountSubquery(db, ParseQuery([query EXCEPT !.limit = -1, !.offset = -1])) }

\* AppStore::get_size_with_query
GetSizeWithQuery(db, query) ==
    { IF out.ok THEN [result |-> "Ok", size |-> out.count] ELSE [result |-> "SqlError"] :
      out \in SqlCountSubquery(db, ParseQuery(query)) }

\* AppStore::get_size
GetSize(db, cluster_id, topic_name) ==
    GetSizeWithQuery(db, [cluster_id |-> cluster_id, topic_name |-> topic_name, offset |-> 0,
                          limit |-> 0, query_template |-> GetSizeTemplate])

\* the store calls: each runs under the connection's FairMutex, one at a time
RECURSIVE RowCount(_, _)
RowCount(db, names) ==
    IF names = {} THEN 0
    ELSE LET n == CHOOSE n \in names : TRUE
         IN  Len(db[n]) + RowCount(db, names \ {n})
TotalRows == RowCount(tables, DOMAIN tables)

QueryOffsets == {0, 1, 3}
QueryLimits == {0, 1, 2, 1000}

StoreCreateTopicTable(topic) ==
    LET r == CreateTopicTable(tables, ClusterId, topic)
        name == GetTableName(ClusterId, topic)
    IN  /\ tables' = r.db
        /\ tableCreates' = IF r.result = "Ok" THEN [tableCreates EXCEPT ![name] = @ + 1]
                                              ELSE tableCreates
        /\ inserted' = IF r.result = "Ok" THEN [inserted EXCEPT ![name] = <<>>] ELSE inserted
        /\ reply' = [op |-> "create_topic_table", topic |-> topic, result |-> r.result]
        /\ UNCHANGED <<clusterVars, adminVars, appVars, lockVars>>

StoreInsertRecord(topic, record) ==
    /\ TotalRows < MaxRows
    /\ LET r == InsertRecord(tables, ClusterId, topic, record)
           name == GetTableName(ClusterId, topic)
       IN  /\ tables' = r.db
           /\ inserted' = IF r.result = "Ok" THEN [inserted EXCEPT ![name] = Append(@, record)]
                                             ELSE inserted
           /\ reply' = [op |-> "insert_record", topic |-> topic, record |-> record,
                        result |-> r.result]
    /\ UNCHANGED <<tableCreates, clusterVars, adminVars, appVars, lockVars>>

StoreGetRecords(topic, offset, limit) ==
    /\ \E out \in GetRecords(tables, ClusterId, topic, offset, limit) :
          reply' = [op |-> "get_records", topic |-> topic, offset |-> offset,
                    limit |-> limit, out |-> out]
    /\ UNCHANGED <<tables, tableCreates, inserted, clusterVars, adminVars, appVars, lockVars>>

StoreGetSize(topic) ==
    /\ \E out \in GetSize(tables, ClusterId, topic) :
          reply' = [op |-> "get_size", topic |-> topic, out |-> out]
    /\ UNCHANGED <<tables, tableCreates, inserted, clusterVars, adminVars, appVars, lockVars>>

StoreClear(topic) ==
    LET r == Clear(tables, ClusterId, topic)
        name == GetTableName(ClusterId, topic)
    IN  /\ tables' = r.db
        /\ inserted' = IF r.result = "Ok" THEN [inserted EXCEPT ![name] = <<>>] ELSE inserted
        /\ reply' = [op |-> "clear", topic |-> topic, result |-> r.result,
                     deleted |-> r.changes]
        /\ UNCHANGED <<tableCreates, clusterVars, adminVars, appVars, lockVars>>

NextStore ==
    \E topic \in Topics :
        \/ StoreCreateTopicTable(topic)
        \/ \E record \in RecordsOf(topic) : StoreInsertRecord(topic, record)
        \/ StoreGetSize(topic)
        \/ StoreGetRecords(topic, 0, 1000)
        \/ StoreClear(topic)

\* the calls on the table of one topic, get_records among them
PagedTopic == "t1"

NextPaging ==
    \/ StoreCreateTopicTable(PagedTopic)
    \/ \E record \in RecordsOf(PagedTopic) : StoreInsertRecord(PagedTopic, record)
    \/ \E offset \in QueryOffsets, limit \in QueryLimits :
          StoreGetRecords(PagedTopic, offset, limit)
    \/ StoreClear(PagedTopic)

\* the templates of the queries put to the store: the one of test_get_size_with_query,
\* the one of get_records, and a bare selection
SizeTestTemplate ==
    <<"SELECT", "*", "FROM", "{:topic}", "WHERE", "offset", "=", "0", "ORDER BY", "offset",
      "LIMIT", "{:limit}", "OFFSET", "{:offset}", ";">>
QueryTemplates == {SizeTestTemplate, GetRecordsTemplate, <<"SELECT", "*", "FROM", "{:topic}">>}
\* limit and offset of a Query: -1 for none
QueryBounds == {-1, 1}
Queries ==
    [cluster_id : {ClusterId}, topic_name : {PagedTopic}, offset : QueryBounds \cup {0},
     limit : QueryBounds, query_template : QueryTemplates]
\* the records stored for them: two of offset 0, one of offset 1
QueriedRecords == {r \in RecordsOf(PagedTopic) : r.timestamp \in {None, Some(1)}}

StoreQueryRecords(query) ==
    /\ \E out \in QueryRecords(tables, query) :
          reply' = [op |-> "query_records", query |-> query, out |-> out]
    /\ UNCHANGED <<tables, tableCreates, inserted, clusterVars, adminVars, appVars, lockVars>>

StoreGetSizeWithQuery(query) ==
    /\ \E out \in GetSizeWithQuery(tables, query) :
          reply' = [op |-> "get_size_with_query", query |-> query, out |-> out]
    /\ UNCHANGED <<tables, tableCreates, inserted, clusterVars, adminVars, appVars, lockVars>>

NextQuery ==
    \/ StoreCreateTopicTable(PagedTopic)
    \/ \E record \in QueriedRecords : StoreInsertRecord(PagedTopic, record)
    \/ \E query \in Queries : StoreQueryRecords(query)
    \/ \E query \in Queries : StoreGetSizeWithQuery(query)
    \/ StoreClear(PagedTopic)

\* the templates handed to parse_query as text: up to MaxPieces pieces, each an ordinary
\* character, a blank, a ';', a placeholder or the start of one; and the documented one
MaxPieces == 3
TemplatePieces ==
    {<<"a">>, <<" ">>, <<";">>, <<"{", ":">>, TopicPlaceholder, LimitPlaceholder,
     OffsetPlaceholder}
RECURSIVE Concat(_)
Concat(pieces) == IF pieces = <<>> THEN <<>> ELSE Head(pieces) \o Concat(Tail(pieces))
ExampleTemplate ==
    <<"S", "E", "L", "E", "C", "T", " ", "*", " ", "F", "R", "O", "M", " ">> \o TopicPlaceholder
    \o <<" ", "L", "I", "M", "I", "T", " ">> \o LimitPlaceholder
    \o <<" ", "O", "F", "F", "S", "E", "T", " ">> \o OffsetPlaceholder \o <<";">>
TextTemplates ==
    {Concat(pieces) : pieces \in UNION {[1..n -> TemplatePieces] : n \in 0..MaxPieces}}
    \cup {ExampleTemplate}
\* (limit, offset) of the queries
LimitsAndOffsets == {<<5, 2>>, <<-1, 10>>}
TextQueries ==
    {[cluster_id |-> <<"c">>, topic_name |-> <<"t">>, limit |-> lo[1], offset |-> lo[2],
      query_template |-> template] : lo \in LimitsAndOffsets, template \in TextTemplates}

\* parse_query applied to the query at hand
ParseQueryCall ==
    /\ reply.op = "query"
    /\ reply' = [op |-> "parse_query", query |-> reply.query,
                 out |-> ParseQueryText(reply.query)]
    /\ UNCHANGED <<tables, tableCreates, inserted, clusterVars, adminVars, appVars, lockVars>>

NextParseQuery == ParseQueryCall

-----------------------------------------------------------------------------
(* Avro: schemas, values, the binary encoding and the projection to JSON *)

\* apache_avro::Schema, the variants without floating point and logical types:
\*   [kind |-> "Null" | "Boolean" | "Int" | "Long" | "Bytes" | "String"]
\*   [kind |-> "Array", items |-> S]       [kind |-> "Union", variants |-> <<S, ..>>]
\*   [kind |-> "Record", name |-> n, fields |-> <<[name |-> f, schema |-> S], ..>>]
\*   [kind |-> "Enum", name |-> n, symbols |-> <<..>>]   [kind |-> "Fixed", name |-> n, size |-> k]
\*   [kind |-> "Ref", name |-> n]
\* apache_avro::types::Value has the same kinds: [kind |-> "Int", v |-> 12],
\* [kind |-> "Union", i |-> 1, v |-> V], [kind |-> "Record", v |-> <<<<f, V>>, ..>>],
\* [kind |-> "Enum", i |-> 0, v |-> symbol], [kind |-> "Fixed", v |-> bytes]; a string is the
\* sequence of its (ASCII) bytes.
Primitive(k) == [kind |-> k]
ArrayOf(s) == [kind |-> "Array", items |-> s]
UnionOf(vs) == [kind |-> "Union", variants |-> vs]
RecordSchema(n, fs) == [kind |-> "Record", name |-> n, fields |-> fs]
Field(n, s) == [name |-> n, schema |-> s]
EnumSchema(n, syms) == [kind |-> "Enum", name |-> n, symbols |-> syms]
FixedSchema(n, k) == [kind |-> "Fixed", name |-> n, size |-> k]
Ref(n) == [kind |-> "Ref", name |-> n]

\* serde_json::Value
JNull == [kind |-> "Null"]
JBool(b) == [kind |-> "Bool", v |-> b]
JNumber(n) == [kind |-> "Number", v |-> n]
JString(str) == [kind |-> "String", v |-> str]
JArray(items) == [kind |-> "Array", v |-> items]
JObject(map) == [kind |-> "Object", v |-> map]
EmptyMap == [k \in {} |-> JNull]

\* variable-length zig-zag coding of int and long
ZigZag(n) == IF n >= 0 THEN 2 * n ELSE -2 * n - 1
UnZigZag(u) == IF u % 2 = 0 THEN u \div 2 ELSE -((u + 1) \div 2)

RECURSIVE Varint(_)
Varint(u) == IF u < 2^7 THEN <<u>> ELSE <<2^7 + (u % 2^7)>> \o Varint(u \div 2^7)

DecodeError == [ok |-> FALSE]

\* a long read from the front of bytes: [ok, v, rest]
RECURSIVE DecodeVarint(_)
DecodeVarint(bytes) ==
    IF bytes = <<>> THEN DecodeError
    ELSE IF Head(bytes) < 2^7 THEN [ok |-> TRUE, v |-> Head(bytes), rest |-> Tail(bytes)]
    ELSE LET r == DecodeVarint(Tail(bytes))
         IN  IF r.ok THEN [ok |-> TRUE, v |-> (Head(bytes) - 2^7) + 2^7 * r.v, rest |-> r.rest]
                     ELSE DecodeError
DecodeLong(bytes) ==
    LET r == DecodeVarint(bytes)
    IN  IF r.ok THEN [ok |-> TRUE, v |-> UnZigZag(r.v), rest |-> r.rest] ELSE DecodeError

\* the named schemas of a schema tree (the names the decoder resolves a Ref against)
RECURSIVE Names(_)
RECURSIVE NamesOfAll(_)
Names(schema) ==
    CASE schema.kind = "Record" ->
            (schema.name :> schema)
            @@ NamesOfAll([i \in 1..Len(schema.fields) |-> schema.fields[i].schema])
      [] schema.kind \in {"Enum", "Fixed"} -> (schema.name :> schema)
      [] schema.kind = "Array" -> Names(schema.items)
      [] schema.kind = "Union" -> NamesOfAll(schema.variants)
      [] OTHER -> EmptyMap
NamesOfAll(schemas) ==
    IF schemas = <<>> THEN EmptyMap ELSE Names(Head(schemas)) @@ NamesOfAll(Tail(schemas))

\* apache_avro::to_avro_datum: the binary encoding of a value of a schema
RECURSIVE Encode(_, _, _)
RECURSIVE EncodeAll(_, _, _)
RECURSIVE EncodeFields(_, _, _)
Encode(value, schema, names) ==
    CASE schema.kind = "Null" -> <<>>
      [] schema.kind = "Boolean" -> IF value.v THEN <<1>> ELSE <<0>>
      [] schema.kind \in {"Int", "Long"} -> Varint(ZigZag(value.v))
      [] schema.kind \in {"Bytes", "String"} -> Varint(ZigZag(Len(value.v))) \o value.v
      [] schema.kind = "Array" ->
            IF value.v = <<>> THEN <<0>>
            ELSE Varint(ZigZag(Len(value.v))) \o EncodeAll(value.v, schema.items, names) \o <<0>>
      [] schema.kind = "Union" ->
            Varint(ZigZag(value.i)) \o Encode(value.v, schema.variants[value.i + 1], names)
      [] schema.kind = "Record" -> EncodeFields(value.v, schema.fields, names)
      [] schema.kind = "Enum" -> Varint(ZigZag(value.i))
      [] schema.kind = "Fixed" -> value.v
      [] schema.kind = "Ref" -> Encode(value, names[schema.name], names)
EncodeAll(values, schema, names) ==
    IF values = <<>> THEN <<>>
    ELSE Encode(Head(values), schema, names) \o EncodeAll(Tail(values), schema, names)
EncodeFields(values, fields, names) ==
    IF values = <<>> THEN <<>>
    ELSE Encode(Head(values)[2], Head(fields).schema, names)
         \o EncodeFields(Tail(values), Tail(fields), names)

\* the strings of the model are ASCII: any byte of 0x80 and above is no valid UTF-8 here
Utf8Valid(bytes) == \A i \in 1..Len(bytes) : bytes[i] < 2^7

\* apache_avro::from_avro_datum: a value of the schema read from the front of bytes,
\* [ok, v, rest]; bytes after the datum are left unread
RECURSIVE Decode(_, _, _)
RECURSIVE DecodeItems(_, _, _, _)
RECURSIVE DecodeBlocks(_, _, _)
RECURSIVE DecodeFields(_, _, _)
Decode(schema, bytes, names) ==
    CASE schema.kind = "Null" -> [ok |-> TRUE, v |-> [kind |-> "Null"], rest |-> bytes]
      [] schema.kind = "Boolean" ->
            IF bytes # <<>> /\ Head(bytes) \in {0, 1}
            THEN [ok |-> TRUE, v |-> [kind |-> "Boolean", v |-> Head(bytes) = 1],
                  rest |-> Tail(bytes)]
            ELSE DecodeError
      [] schema.kind \in {"Int", "Long"} ->
            LET r == DecodeLong(bytes)
            IN  IF r.ok THEN [ok |-> TRUE, v |-> [kind |-> schema.kind, v |-> r.v], rest |-> r.rest]
                        ELSE DecodeError
      [] schema.kind \in {"Bytes", "String"} ->
            LET r == DecodeLong(bytes)
            IN  IF r.ok /\ r.v >= 0 /\ r.v <= Len(r.rest)
                   /\ (schema.kind = "String" => Utf8Valid(SubSeq(r.rest, 1, r.v)))
                THEN [ok |-> TRUE, v |-> [kind |-> schema.kind, v |-> SubSeq(r.rest, 1, r.v)],
                      rest |-> SubSeq(r.rest, r.v + 1, Len(r.rest))]
                ELSE DecodeError
      [] schema.kind = "Array" ->
            LET r == DecodeBlocks(schema.items, bytes, names)
            IN  IF r.ok THEN [ok |-> TRUE, v |-> [kind |-> "Array", v |-> r.v], rest |-> r.rest]
                        ELSE DecodeError
      [] schema.kind = "Union" ->
            LET r == DecodeLong(bytes)
            IN  IF r.ok /\ r.v >= 0 /\ r.v < Len(schema.variants)
                THEN LET inner == Decode(schema.variants[r.v + 1], r.rest, names)
                     IN  IF inner.ok
                         THEN [ok |-> TRUE, v |-> [kind |-> "Union", i |-> r.v, v |-> inner.v],
                               rest |-> inner.rest]
                         ELSE DecodeError
                ELSE DecodeError
      [] schema.kind = "Record" ->
            LET r == DecodeFields(schema.fields, bytes, names)
            IN  IF r.ok THEN [ok |-> TRUE, v |-> [kind |-> "Record", v |-> r.v], rest |-> r.rest]
                        ELSE DecodeError
      [] schema.kind = "Enum" ->
            LET r == DecodeLong(bytes)
            IN  IF r.ok /\ r.v >= 0 /\ r.v < Len(schema.symbols)
                THEN [ok |-> TRUE, v |-> [kind |-> "Enum", i |-> r.v, v |-> schema.symbols[r.v + 1]],
                      rest |-> r.rest]
                ELSE DecodeError
      [] schema.kind = "Fixed" ->
            IF schema.size <= Len(bytes)
            THEN [ok |-> TRUE, v |-> [kind |-> "Fixed", v |-> SubSeq(bytes, 1, schema.size)],
                  rest |-> SubSeq(bytes, schema.size + 1, Len(bytes))]
            ELSE DecodeError
      [] schema.kind = "Ref" ->
            IF schema.name \in DOMAIN names THEN Decode(names[schema.name], bytes, names)
                                            ELSE DecodeError
\* count items of one block
DecodeItems(schema, count, bytes, names) ==
    IF count = 0 THEN [ok |-> TRUE, v |-> <<>>, rest |-> bytes]
    ELSE LET r == Decode(schema, bytes, names)
         IN  IF ~r.ok THEN DecodeError
             ELSE LET more == DecodeItems(schema, count - 1, r.rest, names)
                  IN  IF more.ok THEN [ok |-> TRUE, v |-> <<r.v>> \o more.v, rest |-> more.rest]
                                 ELSE DecodeError
\* the blocks of an array up to the block of count 0; a negative count is followed by the
\* block's size in bytes
DecodeBlocks(schema, bytes, names) ==
    LET c == DecodeLong(bytes)
    IN  IF ~c.ok THEN DecodeError
        ELSE IF c.v = 0 THEN [ok |-> TRUE, v |-> <<>>, rest |-> c.rest]
        ELSE LET size == IF c.v < 0 THEN DecodeLong(c.rest) ELSE [ok |-> TRUE, rest |-> c.rest]
                 count == IF c.v < 0 THEN -c.v ELSE c.v
             IN  IF ~size.ok THEN DecodeError
                 ELSE LET items == DecodeItems(schema, count, size.rest, names)
                      IN  IF ~items.ok THEN DecodeError
                          ELSE LET more == DecodeBlocks(schema, items.rest, names)
                               IN  IF more.ok
                                   THEN [ok |-> TRUE, v |-> items.v \o more.v, rest |-> more.rest]
                                   ELSE DecodeError
DecodeFields(fields, bytes, names) ==
    IF fields = <<>> THEN [ok |-> TRUE, v |-> <<>>, rest |-> bytes]
    ELSE LET r == Decode(Head(fields).schema, bytes, names)
         IN  IF ~r.ok THEN DecodeError
             ELSE LET more == DecodeFields(Tail(fields), r.rest, names)
                  IN  IF more.ok
                      THEN [ok |-> TRUE, v |-> <<<<Head(fields).name, r.v>>>> \o more.v,
                            rest |-> more.rest]
                      ELSE DecodeError

-----------------------------------------------------------------------------
(* The Avro parser: AvroParser::parse_payload, get_schema_id, map *)

\* the 4 bytes read least significant first
I32FromLeBytes(arr) ==
    LET hi == IF arr[4] >= 2^7 THEN arr[4] - 2^8 ELSE arr[4]
    IN  ((hi * 2^8 + arr[3]) * 2^8 + arr[2]) * 2^8 + arr[1]
\* i32::from_be_bytes of a 4-byte array
I32FromBeBytes(arr) ==
    LET hi == IF arr[1] >= 2^7 THEN arr[1] - 2^8 ELSE arr[1]
    IN  ((hi * 2^8 + arr[2]) * 2^8 + arr[3]) * 2^8 + arr[4]


\* get_schema_id: the slice raw[1..5] (which panics on a shorter raw) as a big-endian i32
GetSchemaId(raw) ==
    IF Len(raw) < 5 THEN [kind |-> "Panic"]
    ELSE [kind |-> "Ok", id |-> I32FromBeBytes(SubSeq(raw, 2, 5))]

Panic(message, cache) == [kind |-> "Panic", message |-> message, cache |-> cache]
Mapped(json, cache) == [kind |-> "Ok", json |-> json, cache |-> cache]

\* the loop of the Union arm: every Record variant is entered in the ref cache
RECURSIVE SeedRecordVariants(_, _)
SeedRecordVariants(variants, cache) ==
    IF variants = <<>> THEN cache
    ELSE SeedRecordVariants(Tail(variants),
            IF Head(variants).kind = "Record"
            THEN (Head(variants).name :> Head(variants)) @@ cache
            ELSE cache)

\* lookup.get(k) of a record schema: the index of the field named k, 0 when there is none
FieldIndex(schema, k) ==
    IF \E i \in 1..Len(schema.fields) : schema.fields[i].name = k
    THEN CHOOSE i \in 1..Len(schema.fields) : schema.fields[i].name = k
    ELSE 0

\* json!(*v) of a Vec<u8>: the array of the byte values
BytesJsonSigned(bytes) ==
    JArray([i \in 1..Len(bytes) |-> JNumber(IF bytes[i] >= 2^7 THEN bytes[i] - 2^8 ELSE bytes[i])])
BytesJson(bytes) == JArray([i \in 1..Len(bytes) |-> JNumber(bytes[i])])

\* map(value, schema, ref_cache): the JSON projection, with the ref cache as it is left;
\* every failure of the projection is a panic
RECURSIVE Map(_, _, _)
RECURSIVE MapItems(_, _, _, _)
RECURSIVE MapFields(_, _, _, _)
Map(value, schema, cache) ==
    CASE value.kind = "Null" /\ schema.kind = "Null" -> Mapped(JNull, cache)
      [] value.kind = "Boolean" /\ schema.kind = "Boolean" -> Mapped(JBool(value.v), cache)
      [] value.kind = "Int" /\ schema.kind = "Int" -> Mapped(JNumber(value.v), cache)
      [] value.kind = "Long" /\ schema.kind = "Long" -> Mapped(JNumber(value.v), cache)
      [] value.kind = "String" /\ schema.kind = "String" -> Mapped(JString(value.v), cache)
      [] value.kind = "Array" /\ schema.kind = "Array" ->
            MapItems(value.v, schema.items, cache, <<>>)
      [] value.kind = "Record" /\ schema.kind = "Record" ->
            MapFields(value.v, schema, (schema.name :> schema) @@ cache, EmptyMap)
      [] value.kind = "Bytes" /\ schema.kind = "Bytes" -> Mapped(BytesJson(value.v), cache)
      [] value.kind = "Union" /\ schema.kind = "Union" ->
            IF value.i >= Len(schema.variants) THEN Panic("Missing schema in the union", cache)
            ELSE Map(value.v, schema.variants[value.i + 1],
                     SeedRecordVariants(schema.variants, cache))
      [] value.kind = "Enum" /\ schema.kind = "Enum" ->
            Mapped(JString(value.v), (schema.name :> schema) @@ cache)
      [] value.kind = "Fixed" /\ schema.kind = "Fixed" ->
            Mapped(BytesJson(value.v), (schema.name :> schema) @@ cache)
      [] schema.kind = "Ref" ->
            IF schema.name \in DOMAIN cache THEN Map(value, cache[schema.name], cache)
                                            ELSE Panic("Missing Avro schema reference", cache)
      [] OTHER -> Panic("Unexpected value/schema tuple", cache)
\* for v in v.iter() { json_vec.push(map(v, s, ref_cache)?) }
MapItems(values, schema, cache, done) ==
    IF values = <<>> THEN Mapped(JArray(done), cache)
    ELSE LET m == Map(Head(values), schema, cache)
         IN  IF m.kind = "Ok" THEN MapItems(Tail(values), schema, m.cache, Append(done, m.json))
                              ELSE m
\* for (k, v) in vec.iter() { lookup.get(k) .. json_map.insert(k, map(v, field schema, ref_cache)?) }
MapFields(values, schema, cache, done) ==
    IF values = <<>> THEN Mapped(JObject(done), cache)
    ELSE LET k == Head(values)[1]
             index == FieldIndex(schema, k)
         IN  IF index = 0 THEN Panic("Missing field", cache)
             ELSE LET m == Map(Head(values)[2], schema.fields[index].schema, cache)
                  IN  IF m.kind = "Ok"
                      THEN MapFields(Tail(values), schema, m.cache, (k :> m.json) @@ done)
                      ELSE m

\* the schemas of the registry, by schema id
SampleRecord ==
    RecordSchema("sampleRecord",
        <<Field("null_field", Primitive("Null")), Field("boolean_field", Primitive("Boolean")),
          Field("int_field", Primitive("Int")), Field("long_field", Primitive("Long")),
          Field("bytes_field", Primitive("Bytes")), Field("string_field", Primitive("String"))>>)
Tagged ==
    RecordSchema("tagged", <<Field("tag", Primitive("String")), Field("id", Primitive("Long"))>>)
Inner == RecordSchema("Inner", <<Field("x", Primitive("Int"))>>)
\* a named type defined inside an array and referred to by the next field
Outer == RecordSchema("Outer", <<Field("items", ArrayOf(Inner)), Field("one", Ref("Inner"))>>)
\* a named type defined by a field and referred to by the next field
Pair == RecordSchema("Pair", <<Field("first", Inner), Field("second", Ref("Inner"))>>)

\* a named type defined as a variant of a union and referred to by the next field: a record,
\* an enum, a fixed
Either ==
    RecordSchema("Either", <<Field("pick", UnionOf(<<Primitive("Null"), Inner>>)),
                             Field("one", Ref("Inner"))>>)
Suit == EnumSchema("Suit", <<"HEARTS", "SPADES">>)
Card ==
    RecordSchema("Card", <<Field("pick", UnionOf(<<Primitive("Null"), Suit>>)),
                           Field("suit", Ref("Suit"))>>)
Md5 == FixedSchema("Md5", 2)
Sum ==
    RecordSchema("Sum", <<Field("pick", UnionOf(<<Primitive("Null"), Md5>>)),
                          Field("md5", Ref("Md5"))>>)

Registry ==
    (0 :> SampleRecord) @@ (1 :> Tagged) @@ (2 :> Outer) @@ (3 :> Pair) @@ (4 :> Either)
    @@ (5 :> Card) @@ (6 :> Sum)

\* SchemaRegistryClient::get_schema_by_id
GetSchemaById(id) ==
    IF id \in DOMAIN Registry THEN [ok |-> TRUE, schema |-> Registry[id]] ELSE [ok |-> FALSE]

AvroParseError(lookups) == [kind |-> "Err", error |-> "AvroParse", lookups |-> lookups]

\* a framing test letting a payload of exactly 5 bytes through
UnframedBelow5(raw) == Len(raw) < 5 \/ raw[1] # 0
\* the framing test of parse_payload
Unframed(raw) == Len(raw) <= 5 \/ raw[1] # 0

\* AvroParser::parse_payload, with the ids it asked the registry for; serde_json::to_string
\* then prints the JSON value kept here
ParsePayload(raw) ==
    IF Unframed(raw) THEN AvroParseError(<<>>)
    ELSE
    LET id == GetSchemaId(raw)
    IN  IF id.kind # "Ok" THEN [kind |-> "Panic", message |-> "slice index", lookups |-> <<>>]
        ELSE
        LET found == GetSchemaById(id.id)
            lookups == <<id.id>>
        IN  IF ~found.ok THEN AvroParseError(lookups)
            ELSE
            LET datum == Decode(found.schema, SubSeq(raw, 6, Len(raw)), Names(found.schema))
            IN  IF ~datum.ok THEN AvroParseError(lookups)
                ELSE
                LET m == Map(datum.v, found.schema, EmptyMap)
                IN  IF m.kind = "Ok" THEN [kind |-> "Ok", json |-> m.json, lookups |-> lookups]
                                     ELSE [kind |-> "Panic", message |-> m.message,
                                           lookups |-> lookups]

\* the payloads handed to the parser
MaxGateLen == 6
GateBytes == {0, 1}
\* every short sequence of bytes, framed or not
GatePayloads == UNION {[1..n -> GateBytes] : n \in 0..MaxGateLen}

\* payloads spelling schema ids of either sign, with and without bytes after them
SchemaIdBytes == {0, 128, 255}
IdPayloads ==
    {<<0>> \o id \o rest : id \in [1..4 -> SchemaIdBytes], rest \in {<<>>, <<1, 2>>}}
    \cup {<<0, 0, 1, 134, 197, 0, 0, 0>>}

\* the 4 bytes of a schema id, most significant first
I32ToBeBytes(id) ==
    <<(id \div 2^24) % 2^8, (id \div 2^16) % 2^8, (id \div 2^8) % 2^8, id % 2^8>>
\* the wire framing: 0x00, the schema id, the datum
Frame(id, datum) == <<0>> \o I32ToBeBytes(id) \o datum
Framed(id, value) == Frame(id, Encode(value, Registry[id], Names(Registry[id])))

Value(k, v) == [kind |-> k, v |-> v]
SampleDatum(b, i, l, bytes, str) ==
    Value("Record", <<<<"null_field", Primitive("Null")>>, <<"boolean_field", Value("Boolean", b)>>,
                      <<"int_field", Value("Int", i)>>, <<"long_field", Value("Long", l)>>,
                      <<"bytes_field", Value("Bytes", bytes)>>,
                      <<"string_field", Value("String", str)>>>>)
SampleInts == {12, -1}
SampleLongs == {12345667, -64}
SampleBytes == {<<>>, <<1, 2, 170>>}
SampleStrings == {<<>>, <<89, 79, 33>>}
TaggedDatum(str, l) == Value("Record", <<<<"tag", Value("String", str)>>, <<"id", Value("Long", l)>>>>)
InnerDatum(x) == Value("Record", <<<<"x", Value("Int", x)>>>>)
InnerDatums == {InnerDatum(x) : x \in {1, -7}}
OuterDatum(items, one) == Value("Record", <<<<"items", Value("Array", items)>>, <<"one", one>>>>)
PairDatum(first, second) == Value("Record", <<<<"first", first>>, <<"second", second>>>>)

\* the datums of the schemas with a union: the union holds null or its named variant
UnionValue(i, v) == [kind |-> "Union", i |-> i, v |-> v]
Picks(named) == {UnionValue(0, Primitive("Null"))} \cup {UnionValue(1, v) : v \in named}
SuitDatums == {[kind |-> "Enum", i |-> i, v |-> Suit.symbols[i + 1]] : i \in {0, 1}}
Md5Datums == {Value("Fixed", <<1, 2>>)}
EitherDatum(pick, one) == Value("Record", <<<<"pick", pick>>, <<"one", one>>>>)
CardDatum(pick, suit) == Value("Record", <<<<"pick", pick>>, <<"suit", suit>>>>)
SumDatum(pick, md5) == Value("Record", <<<<"pick", pick>>, <<"md5", md5>>>>)
\* the framed datums of the schemas with a union
UnionPayloads ==
    {Framed(4, EitherDatum(pick, one)) : pick \in Picks(InnerDatums), one \in InnerDatums}
    \cup {Framed(5, CardDatum(pick, suit)) : pick \in Picks(SuitDatums), suit \in SuitDatums}
    \cup {Framed(6, SumDatum(pick, md5)) : pick \in Picks(Md5Datums), md5 \in Md5Datums}
\* the framed datums of the schemas that refer to a named type
RefPayloads ==
    {Framed(2, OuterDatum(items, one)) :
        items \in {<<>>} \cup {<<d>> : d \in InnerDatums}, one \in InnerDatums}
    \cup {Framed(3, PairDatum(first, second)) : first \in InnerDatums, second \in InnerDatums}
    \cup UnionPayloads

FramedPayloads ==
    {Framed(0, SampleDatum(b, i, l, bytes, str)) :
        b \in BOOLEAN, i \in SampleInts, l \in SampleLongs, bytes \in SampleBytes,
        str \in SampleStrings}
    \cup {Framed(1, TaggedDatum(str, l)) : str \in SampleStrings, l \in SampleLongs}
    \cup RefPayloads

Payloads == GatePayloads \cup IdPayloads \cup FramedPayloads

ParsePayloadCall(raw) ==
    /\ reply' = [op |-> "parse_payload", raw |-> raw, out |-> ParsePayload(raw)]
    /\ UNCHANGED <<tables, tableCreates, inserted, clusterVars, adminVars, appVars, lockVars>>

\* get_schema_id called on its own, as its unit test does
GetSchemaIdCall(raw) ==
    /\ Len(raw) >= 5
    /\ reply' = [op |-> "get_schema_id", raw |-> raw, out |-> GetSchemaId(raw)]
    /\ UNCHANGED <<tables, tableCreates, inserted, clusterVars, adminVars, appVars, lockVars>>

NextParser ==
    \E raw \in Payloads :
        \/ ParsePayloadCall(raw)
        \/ GetSchemaIdCall(raw)

-----------------------------------------------------------------------------
(* KafkaAdmin: describe_consumer_group and set_consumer_group, and the broker *)

\* rdkafka::Offset, and Offset::to_raw
OffsetAt(n) == [kind |-> "Offset", v |-> n]
OffsetInvalid == [kind |-> "Invalid"]
OffsetEnd == [kind |-> "End"]
ToRaw(offset) ==
    CASE offset.kind = "Offset" -> offset.v
      [] offset.kind = "End" -> -1
      [] offset.kind = "Invalid" -> -1001

\* the highest offset a partition reaches
MaxOffset == 2

\* the cluster's topics with their partitions, as list_topics returns them
Metadata == <<[name |-> "t1", partitions |-> <<0>>], [name |-> "t2", partitions |-> <<0>>]>>
TopicPartitions ==
    UNION { {<<Metadata[i].name, Metadata[i].partitions[j]>> :
                j \in 1..Len(Metadata[i].partitions)} : i \in 1..Len(Metadata) }
GroupName == "g"
GroupMembers == {"m1"}

\* an element of a TopicPartitionList
Elem(topic, partition, offset) == [topic |-> topic, partition |-> partition, offset |-> offset]

\* the two for_each loops over topics and partitions: one element per partition, in order
RECURSIVE PartitionsOf(_, _)
PartitionsOf(topic, offset) ==
    IF topic.partitions = <<>> THEN <<>>
    ELSE <<Elem(topic.name, Head(topic.partitions), offset)>>
         \o PartitionsOf([topic EXCEPT !.partitions = Tail(@)], offset)
RECURSIVE TopicPartitionList(_, _)
TopicPartitionList(topics, offset) ==
    IF topics = <<>> THEN <<>>
    ELSE PartitionsOf(Head(topics), offset) \o TopicPartitionList(Tail(topics), offset)

\* TopicPartitionList::find_partition: the first element of that topic and partition
FindPartition(tpl, topic, partition) ==
    LET found == {i \in 1..Len(tpl) : tpl[i].topic = topic /\ tpl[i].partition = partition}
    IN  IF found = {} THEN None
        ELSE Some(tpl[CHOOSE i \in found : \A j \in found : i <= j])

\* the map of describe_consumer_group without its filter
DescribedOffsetsUnfiltered(committed_offsets, last_offset) ==
    [i \in 1..Len(committed_offsets) |->
        [topic |-> committed_offsets[i].topic, partition_id |-> committed_offsets[i].partition,
         offset |-> ToRaw(committed_offsets[i].offset),
         last_offset |->
             ToRaw(FindPartition(last_offset, committed_offsets[i].topic,
                                 committed_offsets[i].partition)[1].offset)]]

\* the filter and map of describe_consumer_group: the entries with a committed offset,
\* each with the offset found for its partition in last_offset
DescribedOffsets(committed_offsets, last_offset) ==
    LET valid == SelectSeq(committed_offsets, LAMBDA tpo : tpo.offset # OffsetInvalid)
    IN  [i \in 1..Len(valid) |->
            [topic |-> valid[i].topic, partition_id |-> valid[i].partition,
             offset |-> ToRaw(valid[i].offset),
             last_offset |->
                 ToRaw(FindPartition(last_offset, valid[i].topic, valid[i].partition)[1].offset)]]

\* the call in progress, with the calls made on the consumer it built
NoCall ==
    [op |-> "none", pc |-> "idle", topics |-> <<>>, config |-> "none", tpl |-> <<>>,
     committed_offsets |-> <<>>,
     last_offset |-> <<>>, assignment |-> <<>>, stored |-> 0, calls |-> <<>>,
     at |-> "none", result |-> [kind |-> "none"]]
Made(call, args) == [call |-> call, args |-> args]
\* the call returns (or panics) from where it stands
Done(result) == [probe EXCEPT !.pc = "done", !.at = probe.pc, !.result = result]
KafkaError == [kind |-> "Err", error |-> "Kafka"]
Panicked == [kind |-> "Panic"]

\* the broker's answer to committed_offsets and to offsets_for_times at Offset::End
CommittedOffsets(tpl) ==
    [i \in 1..Len(tpl) |-> [tpl[i] EXCEPT !.offset = committed[<<tpl[i].topic, tpl[i].partition>>]]]
OffsetsForTimes(tpl) ==
    [i \in 1..Len(tpl) |->
        [tpl[i] EXCEPT !.offset = OffsetAt(watermark[<<tpl[i].topic, tpl[i].partition>>])]]

\* the consumer built and subscribed to the topics, which makes it a member of the group
DescribeCreateSubscribed ==
    /\ probe.pc \in {"idle", "done"}
    /\ probe' = [NoCall EXCEPT !.op = "describe", !.pc = "list_topics",
                               !.calls = <<Made("create", <<GroupName>>),
                                           Made("subscribe", <<"t1", "t2">>)>>]
    /\ members' = members \cup {"probe"}
    /\ UNCHANGED <<committed, watermark, clusterVars, storeVars, appVars, lockVars>>

\* describe_consumer_group: the consumer is built with the group's name as group.id
DescribeCreate ==
    /\ probe.pc \in {"idle", "done"}
    /\ probe' = [NoCall EXCEPT !.op = "describe", !.pc = "list_topics",
                               !.calls = <<Made("create", <<GroupName>>)>>]
    /\ UNCHANGED <<committed, watermark, members, clusterVars, storeVars, appVars, lockVars>>

\* self.list_topics()? and the list of all partitions at Offset::End
DescribeListTopics ==
    /\ probe.op = "describe" /\ probe.pc = "list_topics"
    /\ \/ probe' = Done(KafkaError)
       \/ probe' = [probe EXCEPT !.pc = "committed_offsets",
                                 !.tpl = TopicPartitionList(Metadata, OffsetEnd)]
    /\ UNCHANGED <<committed, watermark, members, clusterVars, storeVars, appVars, lockVars>>

\* consumer.committed_offsets(topic_partition_lst.clone(), 60 s).unwrap()
DescribeCommittedOffsets ==
    /\ probe.op = "describe" /\ probe.pc = "committed_offsets"
    /\ \/ probe' = [Done(Panicked) EXCEPT
                       !.calls = Append(@, Made("committed_offsets", <<>>))]
       \/ probe' = [probe EXCEPT !.pc = "offsets_for_times",
                                 !.committed_offsets = CommittedOffsets(probe.tpl),
                                 !.calls = Append(@, Made("committed_offsets", <<>>))]
    /\ UNCHANGED <<committed, watermark, members, clusterVars, storeVars, appVars, lockVars>>

\* consumer.offsets_for_times(topic_partition_lst, 60 s)?
DescribeOffsetsForTimes ==
    /\ probe.op = "describe" /\ probe.pc = "offsets_for_times"
    /\ \/ probe' = [Done(KafkaError) EXCEPT
                       !.calls = Append(@, Made("offsets_for_times", <<>>))]
       \/ probe' = [probe EXCEPT !.pc = "state",
                                 !.last_offset = OffsetsForTimes(probe.tpl),
                                 !.calls = Append(@, Made("offsets_for_times", <<>>))]
    /\ UNCHANGED <<committed, watermark, members, clusterVars, storeVars, appVars, lockVars>>

\* the broker knows a group that has members or committed offsets
GroupList ==
    IF members # {} \/ \E tp \in TopicPartitions : committed[tp] # OffsetInvalid
    THEN <<[name |-> GroupName, state |-> IF members = {} THEN "Empty" ELSE "Stable"]>>
    ELSE <<>>

\* the offsets collected, then get_consumer_group_state through the admin's own consumer:
\* fetch_group_list(Some(name))?, assert_eq!(groups.len(), 1)
DescribeGroupState ==
    /\ probe.op = "describe" /\ probe.pc = "state"
    /\ \/ probe' = Done(KafkaError)
       \/ /\ Len(GroupList) # 1
          /\ probe' = Done(Panicked)
       \/ /\ Len(GroupList) = 1
          /\ probe' = Done([kind |-> "Ok", name |-> GroupName, state |-> GroupList[1].state,
                            offsets |-> DescribedOffsets(probe.committed_offsets,
                                                         probe.last_offset)])
    /\ UNCHANGED <<committed, watermark, members, clusterVars, storeVars, appVars, lockVars>>

\* set_consumer_group(consumer_group_name, topic_names, config): the consumer is built
\* with the group's name as group.id
OffsetConfigurations == {"Beginning", "End"}
TopicNameLists == {<<"t1">>, <<"t1", "t2">>}

SetCreate(topic_names, config) ==
    /\ probe.pc \in {"idle", "done"}
    /\ probe' = [NoCall EXCEPT !.op = "set", !.pc = "setup", !.topics = topic_names,
                               !.config = config,
                               !.calls = <<Made("create", <<GroupName>>)>>]
    /\ UNCHANGED <<committed, watermark, members, clusterVars, storeVars, appVars, lockVars>>

\* KafkaConsumer::setup_consumer(&consumer, topic_names, config).await?: the partitions of
\* the topics are assigned (not subscribed), each at the offset the configuration names
SetupConsumer ==
    /\ probe.op = "set" /\ probe.pc = "setup"
    /\ \/ probe' = Done(KafkaError)
       \/ LET wanted == SelectSeq(Metadata,
                                  LAMBDA topic : \E i \in 1..Len(probe.topics) :
                                                     probe.topics[i] = topic.name)
              all == TopicPartitionList(wanted, OffsetEnd)
              assigned ==
                  [i \in 1..Len(all) |->
                      [all[i] EXCEPT !.offset =
                          IF probe.config = "Beginning" THEN OffsetAt(0)
                          ELSE OffsetAt(watermark[<<all[i].topic, all[i].partition>>])]]
          IN  probe' = [probe EXCEPT !.pc = "assignment", !.assignment = assigned,
                                     !.calls = Append(@, Made("assign", assigned))]
    /\ UNCHANGED <<committed, watermark, members, clusterVars, storeVars, appVars, lockVars>>

\* consumer.assignment()?
SetAssignment ==
    /\ probe.op = "set" /\ probe.pc = "assignment"
    /\ \/ probe' = Done(KafkaError)
       \/ probe' = [probe EXCEPT !.pc = "store", !.stored = 0]
    /\ UNCHANGED <<committed, watermark, members, clusterVars, storeVars, appVars, lockVars>>

\* a turn of the for_each storing the offset as it was assigned
SetStoreOffsetAsAssigned ==
    /\ probe.op = "set" /\ probe.pc = "store" /\ probe.stored < Len(probe.assignment)
    /\ LET t == probe.assignment[probe.stored + 1]
       IN  \/ probe' = Done(Panicked)
           \/ probe' = [probe EXCEPT
                           !.stored = @ + 1,
                           !.calls = Append(@, Made("store_offset",
                                                    <<t.topic, t.partition, ToRaw(t.offset)>>))]
    /\ UNCHANGED <<committed, watermark, members, clusterVars, storeVars, appVars, lockVars>>

\* a turn of the for_each: store_offset(t.topic(), t.partition(), t.offset().to_raw() - 1)
\* and its expect
SetStoreOffset ==
    /\ probe.op = "set" /\ probe.pc = "store" /\ probe.stored < Len(probe.assignment)
    /\ LET t == probe.assignment[probe.stored + 1]
       IN  \/ probe' = Done(Panicked)
           \/ probe' = [probe EXCEPT
                           !.stored = @ + 1,
                           !.calls = Append(@, Made("store_offset",
                                                    <<t.topic, t.partition, ToRaw(t.offset) - 1>>))]
    /\ UNCHANGED <<committed, watermark, members, clusterVars, storeVars, appVars, lockVars>>

\* what a commit of the consumer's state sends for a partition: the offset after the one
\* stored last for it, or the group's committed offset when none was stored
CommittedAfter(calls, tp) ==
    LET stores == {i \in 1..Len(calls) :
                      /\ calls[i].call = "store_offset"
                      /\ <<calls[i].args[1], calls[i].args[2]>> = tp}
    IN  IF stores = {} THEN committed[tp]
        ELSE OffsetAt(calls[CHOOSE i \in stores : \A j \in stores : j <= i].args[3] + 1)

\* Ok(consumer.commit_consumer_state(CommitMode::Sync)?) once the for_each is over
SetCommit ==
    /\ probe.op = "set" /\ probe.pc = "store" /\ probe.stored = Len(probe.assignment)
    /\ LET calls == Append(probe.calls, Made("commit_consumer_state", <<"Sync">>))
       IN  \/ /\ probe' = [Done(KafkaError) EXCEPT !.calls = calls]
              /\ UNCHANGED committed
           \/ /\ probe' = [Done([kind |-> "Ok"]) EXCEPT !.calls = calls]
              /\ committed' = [tp \in TopicPartitions |-> CommittedAfter(probe.calls, tp)]
    /\ UNCHANGED <<watermark, members, clusterVars, storeVars, appVars, lockVars>>

\* the broker's side: a producer appends to a partition, a member of the group commits
\* its position, a member leaves or joins
Produce(tp) ==
    /\ watermark[tp] < MaxOffset
    /\ watermark' = [watermark EXCEPT ![tp] = @ + 1]
    /\ UNCHANGED <<committed, members, probe, clusterVars, storeVars, appVars, lockVars>>

MemberCommit(tp) ==
    /\ members # {}
    /\ committed[tp] # OffsetAt(watermark[tp])
    /\ committed' = [committed EXCEPT ![tp] = OffsetAt(watermark[tp])]
    /\ UNCHANGED <<watermark, members, probe, clusterVars, storeVars, appVars, lockVars>>

MemberLeaveOrJoin(m) ==
    /\ members' = IF m \in members THEN members \ {m} ELSE members \cup {m}
    /\ UNCHANGED <<committed, watermark, probe, clusterVars, storeVars, appVars, lockVars>>

InitAdmin ==
    /\ committed = [tp \in TopicPartitions |-> OffsetInvalid]
    /\ watermark = [tp \in TopicPartitions |-> 0]
    /\ members = GroupMembers
    /\ probe = NoCall

NextAdmin ==
    \/ DescribeCreate
    \/ DescribeListTopics
    \/ DescribeCommittedOffsets
    \/ DescribeOffsetsForTimes
    \/ DescribeGroupState
    \/ \E topic_names \in TopicNameLists, config \in OffsetConfigurations :
          SetCreate(topic_names, config)
    \/ SetupConsumer
    \/ SetAssignment
    \/ SetStoreOffset
    \/ SetCommit
    \/ \E tp \in TopicPartitions : Produce(tp)
    \/ \E tp \in TopicPartitions : MemberCommit(tp)
    \/ \E m \in GroupMembers : MemberLeaveOrJoin(m)

-----------------------------------------------------------------------------
(* Cluster::get_consumer *)

Free == <<>>

\* dropping the MutexGuard a task may hold
Release(t) == IF mapLock = <<t>> THEN Free ELSE mapLock

\* parking_lot::FairMutex around the connection: the thread holding it and, in the order
\* of their arrival, the threads parked on it
ConnFree == [holder |-> Free, queue |-> <<>>]
\* FairMutex::lock: the mutex is taken when it is free, otherwise the thread parks
ConnLock(c, t) ==
    IF c.holder = Free THEN [c EXCEPT !.holder = <<t>>] ELSE [c EXCEPT !.queue = Append(@, t)]
\* an unlock that hands the mutex to the thread parked last
ConnUnlockLastParked(c) ==
    IF c.queue = <<>> THEN [c EXCEPT !.holder = Free]
    ELSE [holder |-> <<c.queue[Len(c.queue)]>>, queue |-> SubSeq(c.queue, 1, Len(c.queue) - 1)]
\* the guard dropped: FairMutex always unlocks fairly, handing the mutex to the thread
\* parked the longest
ConnUnlock(c) ==
    IF c.queue = <<>> THEN [c EXCEPT !.holder = Free]
    ELSE [holder |-> <<Head(c.queue)>>, queue |-> Tail(c.queue)]

\* a task enters get_consumer(topic_name) and reaches self.consumers.lock().await
Call(t, topic) ==
    /\ pc[t] = "idle"
    /\ pc' = [pc EXCEPT ![t] = "lock"]
    /\ arg' = [arg EXCEPT ![t] = <<topic>>]
    /\ UNCHANGED <<consumers, mapLock, handles, constructed, storeVars, adminVars, appVars, lockVars>>

\* Acquire without mutual exclusion: the guard is taken although another task holds it
AcquireNoMutex(t) ==
    /\ pc[t] = "lock"
    /\ mapLock' = <<t>>
    /\ pc' = [pc EXCEPT ![t] = "locked"]
    /\ UNCHANGED <<consumers, arg, handles, constructed, storeVars, adminVars, appVars, lockVars>>

\* lock().await completes: the mutex is free and the task takes it
Acquire(t) ==
    /\ pc[t] = "lock"
    /\ mapLock = Free
    /\ mapLock' = <<t>>
    /\ pc' = [pc EXCEPT ![t] = "locked"]
    /\ UNCHANGED <<consumers, arg, handles, constructed, storeVars, adminVars, appVars, lockVars>>

\* if consumers.get(topic_name).is_none() { .. from_app_store(..).await .. }
\* otherwise consumers.get(topic_name).expect(..).clone() and the guard is dropped
Lookup(t) ==
    /\ pc[t] = "locked"
    /\ IF arg[t][1] \in DOMAIN consumers
       THEN /\ handles' = (t :> consumers[arg[t][1]]) @@ handles
            /\ pc' = [pc EXCEPT ![t] = "done"]
            /\ mapLock' = Release(t)
       ELSE /\ pc' = [pc EXCEPT ![t] = "creating"]
            /\ UNCHANGED <<handles, mapLock>>
    /\ UNCHANGED <<consumers, arg, constructed, storeVars, adminVars, appVars, lockVars>>

\* TopicStore::from_app_store, awaited under the guard of the consumer map: the call of
\* create_topic_table reaches self.conn.lock() and takes the connection
FromAppStoreLock(t) ==
    /\ pc[t] = "creating"
    /\ conn.holder = Free
    /\ conn' = ConnLock(conn, t)
    /\ pc' = [pc EXCEPT ![t] = "creating_table"]
    /\ UNCHANGED <<consumers, mapLock, arg, handles, constructed, storeVars, adminVars, appVars,
                   worker>>

\* TopicStore::from_app_store: creates the topic table through create_topic_table and
\* expects Ok; the connection's guard is dropped at the end of the statement; a panic
\* unwinds get_consumer, which drops both guards
FromAppStore(t) ==
    /\ pc[t] = "creating_table"
    /\ LET r == CreateTopicTable(tables, ClusterId, arg[t][1])
           name == GetTableName(ClusterId, arg[t][1])
       IN  IF r.result = "Ok"
           THEN /\ tables' = r.db
                /\ tableCreates' = [tableCreates EXCEPT ![name] = @ + 1]
                /\ inserted' = [inserted EXCEPT ![name] = <<>>]
                /\ pc' = [pc EXCEPT ![t] = "created"]
                /\ UNCHANGED mapLock
           ELSE /\ pc' = [pc EXCEPT ![t] = "panicked"]
                /\ mapLock' = Release(t)
                /\ UNCHANGED <<tables, tableCreates, inserted>>
    /\ conn' = ConnUnlock(conn)
    /\ UNCHANGED <<consumers, arg, handles, constructed, reply, adminVars, appVars, worker>>

NewConsumerId == Cardinality(constructed) + 1

\* Insert that rebuilds the map with the new entry only, dropping the other topics' consumers
InsertReplacingMap(t) ==
    /\ pc[t] = "created"
    /\ LET id == NewConsumerId
           map2 == (arg[t][1] :> id)
       IN  /\ constructed' = constructed \cup {[id |-> id, topic |-> arg[t][1]]}
           /\ consumers' = map2
           /\ handles' = (t :> map2[arg[t][1]]) @@ handles
    /\ pc' = [pc EXCEPT ![t] = "done"]
    /\ mapLock' = Release(t)
    /\ UNCHANGED <<arg, storeVars, adminVars, appVars, lockVars>>

\* consumers.insert(topic_name, Arc::new(KafkaConsumer::new(..))); then get().clone(), guard dropped
Insert(t) ==
    /\ pc[t] = "created"
    /\ LET id == NewConsumerId
           map2 == (arg[t][1] :> id) @@ consumers
       IN  /\ constructed' = constructed \cup {[id |-> id, topic |-> arg[t][1]]}
           /\ consumers' = map2
           /\ handles' = (t :> map2[arg[t][1]]) @@ handles
    /\ pc' = [pc EXCEPT ![t] = "done"]
    /\ mapLock' = Release(t)
    /\ UNCHANGED <<arg, storeVars, adminVars, appVars, lockVars>>

\* the future of get_consumer is dropped at one of its suspension points
Cancel(t) ==
    /\ pc[t] \in {"lock", "creating", "created"}
    /\ pc' = [pc EXCEPT ![t] = "cancelled"]
    /\ mapLock' = Release(t)
    /\ UNCHANGED <<consumers, arg, handles, constructed, storeVars, adminVars, appVars, lockVars>>

InitCluster ==
    /\ consumers = [n \in {} |-> 0]
    /\ mapLock = Free
    /\ pc = [t \in Tasks |-> "idle"]
    /\ arg = [t \in Tasks |-> <<>>]
    /\ handles = [n \in {} |-> 0]
    /\ constructed = {}

\* the threads running record store operations
NumWorkers == 3
Workers == 1..NumWorkers
WorkerIdle == [pc |-> "idle", op |-> "none"]

InitConn ==
    /\ conn = ConnFree
    /\ worker = [t \in Workers |-> WorkerIdle]

InitStoreEmpty ==
    /\ tables = EmptyDb
    /\ tableCreates = [n \in TableNames |-> 0]
    /\ inserted = [n \in TableNames |-> <<>>]
    /\ reply = [op |-> "none"]

NextCluster ==
    \E t \in Tasks :
        \/ \E topic \in Topics : Call(t, topic)
        \/ Acquire(t)
        \/ Lookup(t)
        \/ FromAppStoreLock(t)
        \/ FromAppStore(t)
        \/ Insert(t)

NextClusterCancel ==
    \/ NextCluster
    \/ \E t \in Tasks : Cancel(t)

-----------------------------------------------------------------------------
(* Threads calling the AppStore: every operation runs under the connection's FairMutex *)

StoreOps == {"insert_record", "get_records", "get_size", "clear"}
\* the record the threads insert
TestRecord ==
    [topic |-> PagedTopic, partition |-> 0, offset |-> 0, timestamp |-> Some(1),
     key |-> Some("key"), payload |-> Some("example payload")]
\* the threads in an insert_record that has not run yet
Inserting == {t \in Workers : worker[t].op = "insert_record"}

\* a thread enters an operation and reaches self.conn.lock(): it takes the connection when
\* it is free and parks otherwise; get_records locks in query_records and get_size in
\* get_size_with_query, once
WorkerCall(t, op) ==
    /\ worker[t].pc = "idle"
    /\ op = "insert_record" => TotalRows + Cardinality(Inserting) < MaxRows
    /\ conn' = ConnLock(conn, t)
    /\ worker' = [worker EXCEPT ![t] = [pc |-> IF conn.holder = Free THEN "holding" ELSE "parked",
                                        op |-> op]]
    /\ UNCHANGED <<clusterVars, storeVars, adminVars, appVars>>

\* what an operation does to the table of the topic once it holds the connection: the
\* database and the inserted records it leaves, and its result
StoreOutcomes(op) ==
    LET name == GetTableName(ClusterId, PagedTopic)
        ins == InsertRecord(tables, ClusterId, PagedTopic, TestRecord)
        clr == Clear(tables, ClusterId, PagedTopic)
    IN  IF op = "insert_record"
        THEN {[db |-> ins.db, result |-> ins.result,
               inserted |-> IF ins.result = "Ok"
                            THEN [inserted EXCEPT ![name] = Append(@, TestRecord)]
                            ELSE inserted]}
        ELSE IF op = "clear"
        THEN {[db |-> clr.db, result |-> clr.result,
               inserted |-> IF clr.result = "Ok" THEN [inserted EXCEPT ![name] = <<>>]
                                                 ELSE inserted]}
        ELSE IF op = "get_records"
        THEN {[db |-> tables, result |-> out.result, inserted |-> inserted] :
                out \in GetRecords(tables, ClusterId, PagedTopic, 0, 1000)}
        ELSE {[db |-> tables, result |-> out.result, inserted |-> inserted] :
                out \in GetSize(tables, ClusterId, PagedTopic)}

\* the thread holding the connection runs its statement and drops the guard at the end of
\* the operation
WorkerRun(t) ==
    /\ conn.holder = <<t>>
    /\ worker[t].pc \in {"holding", "parked"}
    /\ \E out \in StoreOutcomes(worker[t].op) :
          /\ tables' = out.db
          /\ inserted' = out.inserted
          /\ reply' = [op |-> worker[t].op, result |-> out.result]
    /\ conn' = ConnUnlock(conn)
    /\ worker' = [worker EXCEPT ![t] = WorkerIdle]
    /\ UNCHANGED <<tableCreates, clusterVars, adminVars, appVars>>

\* the steps of WorkerRun(t) as the mutex sees them: the holder drops the guard
WorkerReleases(t) ==
    /\ conn.holder = <<t>>
    /\ worker[t].pc \in {"holding", "parked"}
    /\ conn' = ConnUnlock(conn)
    /\ worker' = [worker EXCEPT ![t] = WorkerIdle]

\* the store after create_topic_table for the topic
InitStoreCreated ==
    /\ tables = CreateTopicTable(EmptyDb, ClusterId, PagedTopic).db
    /\ tableCreates = [n \in TableNames |-> IF n = GetTableName(ClusterId, PagedTopic) THEN 1 ELSE 0]
    /\ inserted = [n \in TableNames |-> <<>>]
    /\ reply = [op |-> "none"]

NextWorkers ==
    \E t \in Workers :
        \/ \E op \in StoreOps : WorkerCall(t, op)
        \/ WorkerRun(t)

-----------------------------------------------------------------------------
(* The schema registry's HTTP client: ReqwestClient::get and ReqwestClient::delete *)

TimeoutSeconds == 10
Urls == {"/subjects"}
BasicAuths == {None, Some([username |-> "u", password |-> "p"])}
HttpStatuses == {200, 201, 204, 304, 400, 401, 404, 500, 503}
\* the body of a response: JSON of the type T asked for, JSON of another shape, or no JSON
HttpBodies == {"json of T", "json of another type", "not json"}
\* what request.send().await gives: a response with a status and a body, or a reqwest::Error
\* (no connection, the timeout)
SendOutcomes ==
    {[kind |-> "response", status |-> status, body |-> body] :
        status \in HttpStatuses, body \in HttpBodies}
    \cup {[kind |-> "error", status |-> 0, body |-> error] : error \in {"connect", "timeout"}}

\* the request built by get and delete: the url, the timeout and the optional basic_auth
HttpRequest(method, url, auth) ==
    [method |-> method, url |-> url, timeout |-> TimeoutSeconds, basic_auth |-> auth]
\* StatusCode::is_success
IsSuccess(status) == 200 <= status /\ status <= 299
HttpClientError(message) == [kind |-> "Err", error |-> "HttpClient", message |-> message]

\* get, after the request is sent: send().await? and response.json().await?; the status of
\* the response is never read
HttpGet(outcome) ==
    IF outcome.kind = "error" THEN HttpClientError(outcome.body)
    ELSE IF outcome.body = "json of T" THEN [kind |-> "Ok", value |-> outcome.body]
    ELSE HttpClientError("error decoding response body")

\* delete, after the request is sent: send().await? and the test of status().is_success()
HttpDelete(outcome) ==
    IF outcome.kind = "error" THEN HttpClientError(outcome.body)
    ELSE IF IsSuccess(outcome.status) THEN [kind |-> "Ok", value |-> "()"]
    ELSE HttpClientError("Error calling the delete")

\* one call of get: the request is sent once and the outcome turned into the result
HttpGetCall(url, auth, outcome) ==
    /\ reply' = [op |-> "get", sent |-> <<HttpRequest("GET", url, auth)>>,
                 outcome |-> outcome, result |-> HttpGet(outcome)]
    /\ UNCHANGED <<tables, tableCreates, inserted, clusterVars, adminVars, appVars, lockVars>>

\* one call of delete
HttpDeleteCall(url, auth, outcome) ==
    /\ reply' = [op |-> "delete", sent |-> <<HttpRequest("DELETE", url, auth)>>,
                 outcome |-> outcome, result |-> HttpDelete(outcome)]
    /\ UNCHANGED <<tables, tableCreates, inserted, clusterVars, adminVars, appVars, lockVars>>

NextHttp ==
    \E url \in Urls, auth \in BasicAuths, outcome \in SendOutcomes :
        \/ HttpGetCall(url, auth, outcome)
        \/ HttpDeleteCall(url, auth, outcome)

-----------------------------------------------------------------------------
(* AppState::get_cluster_by_id, Cluster::new and Cluster::clone *)

NumCallers == 3
Callers == 1..NumCallers
\* the ids of the clusters in the persisted configuration, and the ids asked for
ConfiguredClusters == {"c1", "c2"}
RequestedClusters == ConfiguredClusters \cup {"unknown"}
\* the most Cluster::new the model follows
MaxBuilt == 3

NoCluster == [config |-> "none", schema_registry_client |-> 0, consumers |-> 0,
              admin_client |-> 0, parser |-> 0, app_store |-> 0]
\* Cluster::new: every component behind a fresh Arc, here the number of the construction
ClusterNew(config, n) ==
    [config |-> config, schema_registry_client |-> n, consumers |-> n, admin_client |-> n,
     parser |-> n, app_store |-> n]
\* Cluster::clone: the configuration cloned, every Arc cloned
ClusterClone(cluster) ==
    [config |-> cluster.config, schema_registry_client |-> cluster.schema_registry_client,
     consumers |-> cluster.consumers, admin_client |-> cluster.admin_client,
     parser |-> cluster.parser, app_store |-> cluster.app_store]

Idle ==
    [pc |-> "idle", cluster_id |-> "none", cluster |-> NoCluster, consumer |-> 0,
     result |-> "none"]

\* dropping the guard of AppState.clusters, at the return or while a panic unwinds
ReleaseClusters(t) == IF clustersLock = <<t>> THEN Free ELSE clustersLock

\* a task enters get_cluster_by_id(cluster_id) and reaches clusters.lock().await
GetClusterCall(t, cluster_id) ==
    /\ caller[t].pc \in {"idle", "done", "panicked"}
    /\ caller' = [caller EXCEPT ![t] = [Idle EXCEPT !.pc = "lock", !.cluster_id = cluster_id]]
    /\ UNCHANGED <<clusters, clustersLock, built, consumersOf, clusterVars, storeVars, adminVars, lockVars>>

\* the guard taken although another task holds it
GetClusterAcquireNoMutex(t) ==
    /\ caller[t].pc = "lock"
    /\ clustersLock' = <<t>>
    /\ caller' = [caller EXCEPT ![t].pc = "check"]
    /\ UNCHANGED <<clusters, built, consumersOf, clusterVars, storeVars, adminVars, lockVars>>

\* clusters.lock().await completes
GetClusterAcquire(t) ==
    /\ caller[t].pc = "lock"
    /\ clustersLock = Free
    /\ clustersLock' = <<t>>
    /\ caller' = [caller EXCEPT ![t].pc = "check"]
    /\ UNCHANGED <<clusters, built, consumersOf, clusterVars, storeVars, adminVars, lockVars>>

\* if map.get(cluster_id).is_none()
GetClusterCheck(t) ==
    /\ caller[t].pc = "check"
    /\ caller' = [caller EXCEPT ![t].pc = IF caller[t].cluster_id \in DOMAIN clusters
                                          THEN "get" ELSE "configure"]
    /\ UNCHANGED <<clusters, clustersLock, built, consumersOf, clusterVars, storeVars, adminVars, lockVars>>

\* get_configuration().expect(..) and find(|c| c.id == cluster_id).expect(..): a panic
\* when the configuration cannot be read or does not hold the id; the guard is dropped
\* while the panic unwinds
GetClusterConfigure(t) ==
    /\ caller[t].pc = "configure"
    /\ \/ /\ caller' = [caller EXCEPT ![t].pc = "panicked", ![t].result = "Panic"]
          /\ clustersLock' = ReleaseClusters(t)
       \/ /\ caller[t].cluster_id \in ConfiguredClusters
          /\ caller' = [caller EXCEPT ![t].pc = "new"]
          /\ UNCHANGED clustersLock
    /\ UNCHANGED <<clusters, built, consumersOf, clusterVars, storeVars, adminVars, lockVars>>

\* Cluster::new(cluster_config) and map.insert(cluster_id, cluster)
GetClusterNew(t) ==
    /\ caller[t].pc = "new"
    /\ Len(built) < MaxBuilt
    /\ LET n == Len(built) + 1 + Cardinality(DOMAIN consumersOf)
       IN  /\ built' = Append(built, caller[t].cluster_id)
           /\ consumersOf' = (n :> [topic \in {} |-> 0]) @@ consumersOf
           /\ clusters' = (caller[t].cluster_id :> ClusterNew(caller[t].cluster_id, n))
                          @@ clusters
    /\ caller' = [caller EXCEPT ![t].pc = "get"]
    /\ UNCHANGED <<clustersLock, clusterVars, storeVars, adminVars, lockVars>>

\* map.get(cluster_id).expect(..).clone(), and the guard dropped at the return
GetClusterReturn(t) ==
    /\ caller[t].pc = "get"
    /\ IF caller[t].cluster_id \in DOMAIN clusters
       THEN caller' = [caller EXCEPT ![t].pc = "done", ![t].result = "Ok",
                                     ![t].cluster = ClusterClone(clusters[caller[t].cluster_id])]
       ELSE caller' = [caller EXCEPT ![t].pc = "panicked", ![t].result = "Panic"]
    /\ clustersLock' = ReleaseClusters(t)
    /\ UNCHANGED <<clusters, built, consumersOf, clusterVars, storeVars, adminVars, lockVars>>

\* get_consumer(topic_name) on the Cluster a task got: the consumer of the topic in the map
\* behind its handle, created and inserted under the map's lock when the topic has none
GetConsumerOn(t, topic) ==
    /\ caller[t].pc = "done" /\ caller[t].consumer = 0
    /\ LET map == IF caller[t].cluster.consumers \in DOMAIN consumersOf
                  THEN consumersOf[caller[t].cluster.consumers] ELSE [n \in {} |-> 0]
           fresh == 1 + Cardinality(UNION {{<<n, name>> : name \in DOMAIN consumersOf[n]} :
                                           n \in DOMAIN consumersOf})
           found == IF topic \in DOMAIN map THEN map[topic] ELSE fresh
       IN  /\ consumersOf' = (caller[t].cluster.consumers :> ((topic :> found) @@ map))
                             @@ consumersOf
           /\ caller' = [caller EXCEPT ![t].consumer = found]
    /\ UNCHANGED <<clusters, clustersLock, built, clusterVars, storeVars, adminVars, lockVars>>

InitAppState ==
    /\ clusters = [id \in {} |-> NoCluster]
    /\ clustersLock = Free
    /\ caller = [t \in Callers |-> Idle]
    /\ built = <<>>
    /\ consumersOf = [n \in {} |-> [topic \in {} |-> 0]]

NextAppState ==
    \E t \in Callers :
        \/ \E cluster_id \in RequestedClusters : GetClusterCall(t, cluster_id)
        \/ GetClusterAcquire(t)
        \/ GetClusterCheck(t)
        \/ GetClusterConfigure(t)
        \/ GetClusterNew(t)
        \/ GetClusterReturn(t)
        \/ GetConsumerOn(t, PagedTopic)


-----------------------------------------------------------------------------
InitClusterSpec == InitCluster /\ InitStoreEmpty /\ InitAdmin /\ InitAppState /\ InitConn

\* tasks calling get_consumer, every call running to completion
SpecCluster == InitClusterSpec /\ [][NextCluster]_vars
\* the same, where a call may also be cancelled at a suspension point
SpecClusterCancel == InitClusterSpec /\ [][NextClusterCancel]_vars

\* calls on the AppStore of one cluster, in any order
InitStoreSpec == InitCluster /\ InitStoreEmpty /\ InitAdmin /\ InitAppState /\ InitConn
SpecStore == InitStoreSpec /\ [][NextStore]_vars

\* calls on one topic's table, with paged reads
InitPagingSpec == InitCluster /\ InitStoreEmpty /\ InitAdmin /\ InitAppState /\ InitConn
SpecPaging == InitPagingSpec /\ [][NextPaging]_vars

\* calls on one topic's table, with queries from templates
InitQuerySpec == InitCluster /\ InitStoreEmpty /\ InitAdmin /\ InitAppState /\ InitConn
SpecQuery == InitQuerySpec /\ [][NextQuery]_vars

\* parse_query applied to one query
InitParseQuerySpec ==
    /\ InitCluster
    /\ tables = EmptyDb
    /\ tableCreates = [n \in TableNames |-> 0]
    /\ inserted = [n \in TableNames |-> <<>>]
    /\ reply \in {[op |-> "query", query |-> query] : query \in TextQueries}
    /\ InitAdmin /\ InitAppState /\ InitConn
SpecParseQuery == InitParseQuerySpec /\ [][NextParseQuery]_vars

\* the admin's calls against a broker whose group and partitions move
InitAdminSpec == InitCluster /\ InitStoreEmpty /\ InitAdmin /\ InitAppState /\ InitConn
SpecAdmin == InitAdminSpec /\ [][NextAdmin]_vars

\* tasks resolving clusters through the AppState
InitAppStateSpec == InitCluster /\ InitStoreEmpty /\ InitAdmin /\ InitAppState /\ InitConn
SpecAppState == InitAppStateSpec /\ [][NextAppState]_vars

\* calls of the schema registry's HTTP client against a server
InitHttpSpec == InitCluster /\ InitStoreEmpty /\ InitAdmin /\ InitAppState /\ InitConn
SpecHttp == InitHttpSpec /\ [][NextHttp]_vars

\* threads calling the record store
InitWorkersSpec == InitCluster /\ InitStoreCreated /\ InitAdmin /\ InitAppState /\ InitConn
SpecWorkers == InitWorkersSpec /\ [][NextWorkers]_vars
\* a statement ends: the thread that holds the connection eventually drops the guard
SpecWorkersFair == SpecWorkers /\ \A t \in Workers : WF_lockVars(WorkerReleases(t))

\* calls of the parser on the payloads
InitParserSpec == InitCluster /\ InitStoreEmpty /\ InitAdmin /\ InitAppState /\ InitConn
SpecParser == InitParserSpec /\ [][NextParser]_vars

-----------------------------------------------------------------------------
(* Claims on Cluster::get_consumer *)

TopicOf(t) == arg[t][1]
Returned == DOMAIN handles

\* C1: when tasks call get_consumer concurrently and run to completion, under every
\* interleaving no call aborts, every call that returned got the one Consumer instance
\* the map holds for its topic (so calls with the same topic share their instance),
\* and the topic's table was created exactly once; a waiting call is never blocked by
\* a holder that cannot proceed.
C1_SameConsumerTableOnce ==
    /\ \A t \in Tasks : pc[t] # "panicked"
    /\ \A t \in Tasks : pc[t] = "done" <=> t \in Returned
    /\ \A t \in Returned :
          /\ TopicOf(t) \in DOMAIN consumers
          /\ handles[t] = consumers[TopicOf(t)]
          /\ tableCreates[GetTableName(ClusterId, TopicOf(t))] = 1
    /\ \A t1, t2 \in Returned : TopicOf(t1) = TopicOf(t2) => handles[t1] = handles[t2]
    /\ \A n \in TableNames : tableCreates[n] <= 1
    /\ mapLock # Free => pc[mapLock[1]] \in {"locked", "creating", "creating_table", "created"}

\* every task called get_consumer with the same topic and every call has returned
C1_Witness ==
    \E topic \in Topics : \A t \in Tasks : pc[t] = "done" /\ arg[t] = <<topic>>

\* C2: a topic mapped to a Consumer stays mapped to that same Consumer in every step
\* (calls for the same or another topic, cancelled or not), and at most one Consumer
\* is ever constructed per topic name.
C2_OnePerTopicNeverReplaced ==
    [][ /\ \A topic \in DOMAIN consumers :
              topic \in DOMAIN consumers' /\ consumers'[topic] = consumers[topic]
        /\ \A c1, c2 \in constructed' : c1.topic = c2.topic => c1 = c2
        /\ \A topic \in DOMAIN consumers' :
              [id |-> consumers'[topic], topic |-> topic] \in constructed' ]_vars

\* both topics are mapped, and a second call for an already mapped topic has returned
C2_Witness ==
    /\ DOMAIN consumers = Topics
    /\ \E t1, t2 \in Returned : t1 # t2 /\ TopicOf(t1) = TopicOf(t2)

\* C3: a get_consumer call cancelled at a suspension point leaves the shared state such
\* that later calls for the topic succeed: no call aborts, and every call that returns
\* got the Consumer of the map with the topic's table created exactly once.
C3_CancelKeepsLaterCallsWorking ==
    /\ \A t \in Tasks : pc[t] # "panicked"
    /\ \A t \in Returned :
          /\ TopicOf(t) \in DOMAIN consumers
          /\ handles[t] = consumers[TopicOf(t)]
          /\ tableCreates[GetTableName(ClusterId, TopicOf(t))] = 1

\* C21: no task holds the consumer map's mutex and the connection's mutex at once, and the
\* consumer map's mutex is not held while get_consumer is suspended in the creation of the
\* topic's table.
C21_NoTwoLocksNoStoreWorkUnderMapLock ==
    \A t \in Tasks :
        mapLock = <<t>> => conn.holder # <<t>> /\ pc[t] \notin {"creating", "creating_table"}

-----------------------------------------------------------------------------
(* Claims on the record store *)

TableOf(topic) == GetTableName(ClusterId, topic)

\* C4: create_topic_table is idempotent: every call, also a repeated one for the same
\* (cluster_id, topic_name), returns Ok and leaves the store with the table of that pair.
C4_CreateTopicTableIdempotent ==
    reply.op = "create_topic_table" =>
        reply.result = "Ok" /\ TableOf(reply.topic) \in DOMAIN tables

\* in ORDER BY timestamp DESC a missing timestamp sorts after every present one
TsGeq(a, b) == b = None \/ (a # None /\ a[1] >= b[1])
TsGreater(a, b) == ~TsGeq(b, a)

C10_GetSizeCountsInserts ==
    (reply.op = "get_size" /\ TableOf(reply.topic) \in DOMAIN tables) =>
        reply.out = [result |-> "Ok", size |-> Len(inserted[TableOf(reply.topic)])]

\* the same record was inserted three times and get_size returned 3
C10_Witness ==
    /\ reply.op = "get_size"
    /\ TableOf(reply.topic) \in DOMAIN tables
    /\ LET hist == inserted[TableOf(reply.topic)]
       IN  Len(hist) = 3 /\ hist[1] = hist[2] /\ hist[2] = hist[3]
    /\ reply.out = [result |-> "Ok", size |-> 3]

\* C11: get_size_with_query(q) returns what query_records(q) returns in the same state
\* of the store, counted: Ok(n) where every result query_records(q) may give is Ok with n
\* records, the LIMIT and OFFSET of the template applied (-1 is no bound), and an error
\* where query_records gives one; with the rows of offsets 1, 0, 0 the test's query with
\* limit -1 and offset -1 counts 2.
C11_SizeWithQueryIsRowCount ==
    reply.op = "get_size_with_query" =>
        /\ \A r \in QueryRecords(tables, reply.query) :
              /\ r.result = reply.out.result
              /\ r.result = "Ok" => Len(r.records) = reply.out.size
        /\ TableOf(reply.query.topic_name) \in DOMAIN tables =>
              LET hist == inserted[TableOf(reply.query.topic_name)]
                  selected == IF reply.query.query_template = SizeTestTemplate
                              THEN Cardinality({j \in 1..Len(hist) : hist[j].offset = 0})
                              ELSE Len(hist)
                  paged == reply.query.query_template \in {SizeTestTemplate, GetRecordsTemplate}
                  skipped == IF paged /\ reply.query.offset >= 0 THEN reply.query.offset ELSE 0
                  rest == IF selected > skipped THEN selected - skipped ELSE 0
                  size == IF paged /\ reply.query.limit >= 0 /\ reply.query.limit < rest
                          THEN reply.query.limit ELSE rest
              IN  reply.out = [result |-> "Ok", size |-> size]

\* records of offsets 1, 0, 0 were inserted and the test's query with limit -1 and
\* offset -1 counted 2
C11_Witness ==
    /\ reply.op = "get_size_with_query"
    /\ reply.query.query_template = SizeTestTemplate
    /\ reply.query.limit = -1 /\ reply.query.offset = -1
    /\ TableOf(reply.query.topic_name) \in DOMAIN tables
    /\ LET hist == inserted[TableOf(reply.query.topic_name)]
       IN  Len(hist) = 3 /\ hist[1].offset = 1 /\ hist[2].offset = 0 /\ hist[3].offset = 0
    /\ reply.out = [result |-> "Ok", size |-> 2]

\* C13: a clear that returns leaves the topic's table in the store and empty: get_size
\* is then 0, get_records returns no record and insert_record succeeds, with no
\* create_topic_table in between; the tables and rows of every other topic are as before.
C13_ClearEmptiesAndKeepsTable ==
    [][(reply'.op = "clear" /\ reply'.result = "Ok") =>
          LET name == TableOf(reply'.topic)
          IN  /\ DOMAIN tables' = DOMAIN tables
              /\ name \in DOMAIN tables'
              /\ tables'[name] = <<>>
              /\ \A other \in DOMAIN tables \ {name} : tables'[other] = tables[other]
              /\ GetSize(tables', ClusterId, reply'.topic) = {[result |-> "Ok", size |-> 0]}
              /\ GetRecords(tables', ClusterId, reply'.topic, 0, 1000) =
                    {[result |-> "Ok", records |-> <<>>]}
              /\ \A record \in RecordsOf(reply'.topic) :
                    InsertRecord(tables', ClusterId, reply'.topic, record).result = "Ok"]_vars

\* clear deleted two rows of one topic while the other topic's table held a row
C13_Witness ==
    /\ reply.op = "clear" /\ reply.result = "Ok" /\ reply.deleted = 2
    /\ tables[TableOf(reply.topic)] = <<>>
    /\ \E other \in DOMAIN tables \ {TableOf(reply.topic)} : Len(tables[other]) = 1

EveryOccurrenceReplaced(query) ==
    LET t == query.query_template
        At(i, pat) == i + Len(pat) - 1 <= Len(t) /\ SubSeq(t, i, i + Len(pat) - 1) = pat
        From[k \in 0..Len(t)] ==
            LET i == Len(t) + 1 - k
            IN  IF k = 0 THEN <<>>
                ELSE IF At(i, <<"{", ":", "t", "o", "p", "i", "c", "}">>)
                     THEN <<"'", "[">> \o query.cluster_id \o <<"]", ".", "[">>
                          \o query.topic_name \o <<"]", "'">> \o From[k - 8]
                ELSE IF At(i, <<"{", ":", "l", "i", "m", "i", "t", "}">>)
                     THEN (IF query.limit = 5 THEN <<"5">> ELSE <<"-", "1">>) \o From[k - 8]
                ELSE IF At(i, <<"{", ":", "o", "f", "f", "s", "e", "t", "}">>)
                     THEN (IF query.offset = 2 THEN <<"2">> ELSE <<"1", "0">>) \o From[k - 9]
                ELSE <<t[i]>> \o From[k - 1]
    IN  From[Len(t)]

-----------------------------------------------------------------------------
(* Claims on KafkaAdmin *)

\* the positions in the calls made on the call's consumer where `call` was made
CallsOf(call) == {i \in 1..Len(probe.calls) : probe.calls[i].call = call}

\* C15: no step of describe_consumer_group, on any of its paths, changes the group's
\* committed offsets or its members, and the consumer it builds with the group's name is
\* never subscribed, never assigned partitions, never stores an offset and never commits.
C15_DescribeLeavesGroupAlone ==
    [][(probe'.op = "describe" /\ probe' # probe) =>
          /\ committed' = committed
          /\ members' = members
          /\ \A i \in 1..Len(probe'.calls) :
                probe'.calls[i].call \notin
                    {"subscribe", "assign", "store_offset", "commit", "commit_consumer_state"}]_vars

\* a group with a member and a committed offset was described to the end
C15_Witness ==
    /\ probe.op = "describe" /\ probe.result.kind = "Ok"
    /\ members # {}
    /\ \E tp \in TopicPartitions : committed[tp] # OffsetInvalid
    /\ CallsOf("committed_offsets") # {} /\ CallsOf("offsets_for_times") # {}

\* C16: the offsets describe_consumer_group returns hold, for every (topic, partition) of
\* the cluster, exactly one entry when the committed offset read for the group is not
\* Invalid and none when it is; the entry carries that committed offset and, as
\* last_offset, the offset offsets_for_times gave for the same (topic, partition) of the
\* same list.
C16_DescribedOffsets ==
    (probe.op = "describe" /\ probe.result.kind = "Ok") =>
        LET offsets == probe.result.offsets
        IN  /\ \A i \in 1..Len(offsets) :
                  <<offsets[i].topic, offsets[i].partition_id>> \in TopicPartitions
            /\ \A tp \in TopicPartitions :
                  LET entries == {i \in 1..Len(offsets) :
                                     offsets[i].topic = tp[1] /\ offsets[i].partition_id = tp[2]}
                      At(tpl) == {j \in 1..Len(tpl) :
                                     tpl[j].topic = tp[1] /\ tpl[j].partition = tp[2]}
                  IN  /\ Cardinality(At(probe.tpl)) = 1
                      /\ Cardinality(At(probe.committed_offsets)) = 1
                      /\ Cardinality(At(probe.last_offset)) = 1
                      /\ \A c \in At(probe.committed_offsets), l \in At(probe.last_offset) :
                            IF probe.committed_offsets[c].offset.kind = "Invalid"
                            THEN entries = {}
                            ELSE /\ Cardinality(entries) = 1
                                 /\ \A i \in entries :
                                       /\ offsets[i].offset = probe.committed_offsets[c].offset.v
                                       /\ offsets[i].last_offset = probe.last_offset[l].offset.v

\* a describe returned one entry, for the partition with a committed offset, with the
\* committed offset 1 and the high watermark 2 of that partition, the other partition
\* standing at another high watermark
C16_Witness ==
    /\ probe.op = "describe" /\ probe.result.kind = "Ok"
    /\ Len(probe.result.offsets) = 1
    /\ probe.result.offsets[1].topic = "t2"
    /\ probe.result.offsets[1].offset = 1 /\ probe.result.offsets[1].last_offset = 2
    /\ \E l \in 1..Len(probe.last_offset) :
          probe.last_offset[l].topic = "t1" /\ probe.last_offset[l].offset = OffsetAt(0)

\* C17: in set_consumer_group every store_offset comes after the assignment made by
\* setup_consumer, the k-th store is for the k-th partition of the assignment with
\* (assigned offset - 1), the commit comes once, after a store for every assigned
\* partition, and a call whose setup_consumer failed has stored and committed nothing.
C17_SetAssignsStoresCommits ==
    probe.op = "set" =>
        LET calls == probe.calls
            assigns == CallsOf("assign")
            stores == CallsOf("store_offset")
            commits == CallsOf("commit_consumer_state")
        IN  /\ Cardinality(assigns) <= 1 /\ Cardinality(commits) <= 1
            /\ assigns = {} => stores = {} /\ commits = {}
            /\ \A a \in assigns :
                  LET assigned == calls[a].args
                  IN  /\ \A i \in stores :
                            LET k == i - a
                            IN  /\ k \in 1..Len(assigned)
                                /\ calls[i].args =
                                      <<assigned[k].topic, assigned[k].partition,
                                        assigned[k].offset.v - 1>>
                      /\ \A c \in commits :
                            /\ c = a + Len(assigned) + 1
                            /\ stores = (a + 1)..(c - 1)
                            /\ c = Len(calls)
            /\ (probe.result.kind = "Err" /\ probe.at = "setup") =>
                  stores = {} /\ commits = {}
            /\ probe.result.kind = "Ok" => commits # {}

\* set_consumer_group for both topics at the end of a partition with high watermark 2
\* stored 1 for it and committed
C17_Witness ==
    /\ probe.op = "set" /\ probe.result.kind = "Ok" /\ probe.config = "End"
    /\ Len(probe.assignment) = 2
    /\ Cardinality(CallsOf("store_offset")) = 2
    /\ \E i \in CallsOf("store_offset") : probe.calls[i].args = <<"t2", 0, 1>>
    /\ committed[<<"t2", 0>>] = OffsetAt(2)

-----------------------------------------------------------------------------
(* Claims on AppState::get_cluster_by_id *)

\* C18: a call of get_cluster_by_id with a cluster id that the persisted configuration does
\* not hold ends by returning the error Configuration to its caller: it does not panic.
C18_UnknownClusterIsConfigurationError ==
    \A t \in Callers :
        (caller[t].pc \in {"done", "panicked"} /\ caller[t].cluster_id \notin ConfiguredClusters)
            => caller[t].result = "Configuration"

\* the numbers of the Cluster::new performed for a cluster id
BuiltFor(cluster_id) == {n \in 1..Len(built) : built[n] = cluster_id}

\* C20: however the calls of get_cluster_by_id interleave, Cluster::new runs at most once
\* for a cluster id; the Clusters returned for the same id hold the same consumer map,
\* record store, parser and admin client; and get_consumer for a topic on any two of them
\* returns the same consumer.
C20_OneClusterPerIdSharedByAll ==
    /\ \A cluster_id \in RequestedClusters : Cardinality(BuiltFor(cluster_id)) <= 1
    /\ \A t, u \in Callers :
           (caller[t].pc = "done" /\ caller[u].pc = "done"
                /\ caller[t].cluster_id = caller[u].cluster_id)
               => /\ caller[t].cluster.consumers = caller[u].cluster.consumers
                  /\ caller[t].cluster.app_store = caller[u].cluster.app_store
                  /\ caller[t].cluster.parser = caller[u].cluster.parser
                  /\ caller[t].cluster.admin_client = caller[u].cluster.admin_client
                  /\ (caller[t].consumer # 0 /\ caller[u].consumer # 0)
                         => caller[t].consumer = caller[u].consumer

\* two tasks hold the Cluster of the same id and each got the topic's consumer through its
\* own handle, while a third task that asked for the same id is still in the call
C20_Witness ==
    \E t, u, v \in Callers :
        /\ t # u /\ t # v /\ u # v
        /\ caller[t].pc = "done" /\ caller[u].pc = "done"
        /\ caller[v].pc \in {"lock", "check", "get"}
        /\ caller[t].cluster_id = caller[u].cluster_id
        /\ caller[v].cluster_id = caller[t].cluster_id
        /\ caller[t].consumer # 0 /\ caller[u].consumer # 0
        /\ Cardinality(BuiltFor(caller[t].cluster_id)) = 1

-----------------------------------------------------------------------------
(* Claims on the schema registry's HTTP client *)

\* C19: no call of get or delete returns Ok for a response whose status is not 2xx: get
\* returns the error HttpClient, delete returns HttpClient with the message "Error calling
\* the delete", delete returns Ok for a 2xx response, and each call sends one request.
C19_NonSuccessStatusIsAnError ==
    reply.op \in {"get", "delete"} =>
        /\ Len(reply.sent) = 1
        /\ (reply.outcome.kind = "response" /\ ~IsSuccess(reply.outcome.status))
               => /\ reply.result.kind = "Err" /\ reply.result.error = "HttpClient"
                  /\ reply.op = "delete" => reply.result.message = "Error calling the delete"
        /\ (reply.op = "delete" /\ reply.outcome.kind = "response"
                /\ IsSuccess(reply.outcome.status))
               => reply.result.kind = "Ok"

-----------------------------------------------------------------------------
(* Claims on the AppStore's FairMutex *)

\* C24: the record store's operations run one at a time under one fair mutex and no caller
\* starves: a thread parked on the connection for a query or an insert gets the connection,
\* whatever the other threads keep calling; no thread waits for the connection while it
\* holds it.
C24_NoCallerStarves ==
    /\ [](/\ \A i \in 1..Len(conn.queue) : conn.holder # <<conn.queue[i]>>
          /\ \A i, j \in 1..Len(conn.queue) : conn.queue[i] = conn.queue[j] => i = j
          /\ \A t \in Workers :
                worker[t].pc = "holding" => conn.holder = <<t>>)
    /\ \A t \in Workers :
          (worker[t].pc = "parked" /\ conn.holder # <<t>>) ~> (conn.holder = <<t>>)

\* a query is parked behind a parked insert while a third thread holds the connection for
\* an insert
C24_Witness ==
    \E t, u, v \in Workers :
        /\ conn.holder = <<t>> /\ worker[t].op = "insert_record"
        /\ conn.queue = <<u, v>>
        /\ worker[u].op = "insert_record" /\ worker[v].op \in {"get_records", "get_size"}

-----------------------------------------------------------------------------
(* Claims on the Avro parser *)

\* C5: a payload of at most 5 bytes, or whose first byte is not 0x00, makes parse_payload
\* return an AvroParse error, and no schema was asked of the registry in that call.
C5_FramingGate ==
    (reply.op = "parse_payload" /\ (Len(reply.raw) <= 5 \/ reply.raw[1] # 0)) =>
        /\ reply.out.kind = "Err"
        /\ reply.out.error = "AvroParse"
        /\ reply.out.lookups = <<>>

\* parse_payload refused a payload of exactly 5 bytes that starts with 0x00
C5_Witness ==
    /\ reply.op = "parse_payload"
    /\ Len(reply.raw) = 5 /\ reply.raw[1] = 0
    /\ reply.out.kind = "Err"

\* C6: parse_payload never aborts: whatever the payload, and so also when the projection
\* fails, it returns Ok or the error AvroParse.
C6_ProjectionFailuresAreErrors ==
    reply.op = "parse_payload" =>
        /\ reply.out.kind \in {"Ok", "Err"}
        /\ reply.out.kind = "Err" => reply.out.error = "AvroParse"

\* C22: in the projection of a datum that conforms to a schema whose named types are defined
\* before they are referred to, every Ref that is reached finds its name in the ref table,
\* also when the definition sits in an array that the datum leaves empty or in a union
\* variant that the datum did not select.
C22_EveryReachedRefResolves ==
    (reply.op = "parse_payload" /\ reply.raw \in RefPayloads) =>
        ~(reply.out.kind = "Panic" /\ reply.out.message = "Missing Avro schema reference")

\* C23: the projection of a union value enters every named variant of the union in the ref
\* table, the record, the enum and the fixed alike: a datum whose union holds another
\* variant and whose next field refers to the named variant is projected to its JSON.
C23_UnionSeedsEveryNamedVariant ==
    (reply.op = "parse_payload" /\ reply.raw \in UnionPayloads) => reply.out.kind = "Ok"

ExtractedId ==
    IF reply.op = "get_schema_id" THEN <<reply.out.id>>
    ELSE IF reply.op = "parse_payload" /\ reply.out.lookups # <<>> THEN <<reply.out.lookups[1]>>
    ELSE <<>>

\* C8: for a byte array b of at least 5 bytes with b[0] = 0, get_schema_id returns the
\* signed 32-bit integer whose two's-complement bytes are b[1], b[2], b[3], b[4], most
\* significant first, whatever follows them; [00,00,01,86,C5,00,00,00] gives 100037. The
\* id parse_payload asks the registry for is that integer.
C8_SchemaIdBigEndian ==
    /\ (reply.op = "get_schema_id" /\ reply.raw[1] = 0) => reply.out.kind = "Ok"
    /\ (ExtractedId # <<>> /\ reply.raw[1] = 0) =>
          LET id == ExtractedId[1]
          IN  /\ (id \div 2^24) % 2^8 = reply.raw[2]
              /\ (id \div 2^16) % 2^8 = reply.raw[3]
              /\ (id \div 2^8) % 2^8 = reply.raw[4]
              /\ id % 2^8 = reply.raw[5]
              /\ (id < 0) = (reply.raw[2] >= 2^7)
              /\ reply.raw = <<0, 0, 1, 134, 197, 0, 0, 0>> => id = 100037

\* get_schema_id returned 100037 for [00,00,01,86,C5,00,00,00]
C8_Witness ==
    /\ reply.op = "get_schema_id"
    /\ reply.raw = <<0, 0, 1, 134, 197, 0, 0, 0>>
    /\ reply.out = [kind |-> "Ok", id |-> 100037]

====
